---- MODULE Spec2Model ----
(***************************************************************************)
(* Model of the rainfall pipeline of abhaysoni007/Rainfall_Prediction:     *)
(* DataProcessor (load_netcdf_data, regrid_data,                           *)
(* calculate_seasonal_totals), ClimateAnalyzer                             *)
(* (calculate_rainfall_indices, ensemble_analysis,                         *)
(* calculate_regional_statistics) and the session of the pages of app.py.  *)
(*                                                                         *)
(* Numbers.  The daily series of the index engine and of the aggregator    *)
(* hold integers counting hundredths of a millimetre per day (MM units     *)
(* make one mm/day), so the thresholds 0.1, 1.0 and 100.0 of the source    *)
(* are 10, 100 and 10000.  The fields handed to ensemble_analysis hold     *)
(* whole millimetres.  Means, percentiles and percentages are exact        *)
(* rationals [n, d] with d > 0 in lowest terms; floating-point rounding    *)
(* is not modelled.  A missing value (NaN) is the value NaN, outside       *)
(* every value range.                                                      *)
(***************************************************************************)
EXTENDS Integers, Sequences, FiniteSets, TLC

VARIABLES
    file_path,          \* argument of load_netcdf_data
    loaded_data,        \* result of load_netcdf_data
    load_outcome,       \* "pending", "returned" or "raised"
    imd_data,           \* arguments of regrid_data
    cmip6_data,
    target_resolution,  \* in quarter degrees
    regridded_data,     \* result of regrid_data: entries imd, cmip6, target_grid
    regrid_outcome,     \* "pending", "returned" or "raised"
    seasonal_data,      \* result of calculate_seasonal_totals, argument of
                        \* calculate_rainfall_indices: name -> dataset
    seasonal_outcome,   \* "pending", "returned" or "raised"
    indices_outcome,    \* "pending", "returned" or "raised"
    rainfall_indices,   \* the IndexSet: result of calculate_rainfall_indices,
                        \* argument of ensemble_analysis
    ensemble_results,   \* what ensemble_analysis returned (<<>> before / on error)
    ensemble_outcome,   \* "pending", "returned" or "raised"
    regional_stats,     \* what calculate_regional_statistics returned
    regional_outcome,   \* "pending", "returned" or "raised"
    last_error,         \* the message of the exception that reached the caller
                        \* of the call that failed, outermost part first
    session_state,      \* st.session_state of the app: key -> stored value
    page_output         \* what the last interaction with the app displayed

load_vars == <<file_path, loaded_data, load_outcome>>

regrid_vars == <<imd_data, cmip6_data, target_resolution, regridded_data,
                 regrid_outcome>>

app_vars == <<session_state, page_output>>

vars == <<load_vars, regrid_vars, seasonal_data, seasonal_outcome, indices_outcome, rainfall_indices,
          ensemble_results, ensemble_outcome, regional_stats, regional_outcome,
          last_error, app_vars>>

-----------------------------------------------------------------------------
(* Bounds of the model *)

\* number of spatial samples of a field handed to ensemble_analysis
EnsCells == 2

\* longest patterned series handed to the index engine (steps)
MaxT == 5

\* length of the constant series: the days of one June-September season
SeasonDays == 122

\* time steps of a dataset handed to regrid_data
RegridSteps == 1

\* most years of a daily dataset handed to calculate_seasonal_totals
MaxYears == 2

-----------------------------------------------------------------------------
(* Arithmetic helpers *)

NaN == -999999

IsNaN(v) == v = NaN

Abs(x) == IF x < 0 THEN -x ELSE x

Max(a, b) == IF a >= b THEN a ELSE b

RECURSIVE Gcd(_, _)
Gcd(a, b) == IF b = 0 THEN a ELSE Gcd(b, a % b)

\* the rational n/d (d # 0) in lowest terms with a positive denominator
Rat(n, d) ==
    LET g == Gcd(Abs(n), Abs(d))
        s == IF d < 0 THEN -1 ELSE 1
    IN  [n |-> s * (n \div g), d |-> s * (d \div g)]

RatInt(k) == [n |-> k, d |-> 1]
RatAdd(a, b) == Rat(a.n * b.d + b.n * a.d, a.d * b.d)
RatSub(a, b) == Rat(a.n * b.d - b.n * a.d, a.d * b.d)
RatMul(a, b) == Rat(a.n * b.n, a.d * b.d)
RatDiv(a, b) == Rat(a.n * b.d, a.d * b.n)
RatLt(a, b) == a.n * b.d < b.n * a.d
RatLe(a, b) == a.n * b.d <= b.n * a.d

RECURSIVE SumSeq(_)
SumSeq(s) == IF s = <<>> THEN 0 ELSE Head(s) + SumSeq(Tail(s))

\* data_values[~np.isnan(data_values)]
RECURSIVE DropNaN(_)
DropNaN(s) ==
    IF s = <<>> THEN <<>>
    ELSE IF IsNaN(Head(s)) THEN DropNaN(Tail(s))
         ELSE <<Head(s)>> \o DropNaN(Tail(s))

RECURSIVE Insert(_, _)
Insert(x, s) ==
    IF s = <<>> THEN <<x>>
    ELSE IF x <= Head(s) THEN <<x>> \o s
         ELSE <<Head(s)>> \o Insert(x, Tail(s))

RECURSIVE SortValues(_)
SortValues(s) == IF s = <<>> THEN <<>> ELSE Insert(Head(s), SortValues(Tail(s)))

-----------------------------------------------------------------------------
(* xarray data arrays *)

\* A DataArray: dims is the tuple of dimension names, units the 'units'
\* attribute (NoUnits when the attribute is absent), lat and lon the
\* coordinate arrays (empty when the dimension is gone) and vals maps a cell
\* <<i, j>> to the sequence of its values along the leading time/year axis
\* (one value when there is no such axis).
NoUnits == "<no units attribute>"

DataArray(dims, units, lat, lon, vals) ==
    [kind |-> "array", dims |-> dims, units |-> units, lat |-> lat, lon |-> lon,
     vals |-> vals]

\* str.lower() on the variable and coordinate names that occur
Lower(name) ==
    CASE name = "PR"  -> "pr"
      [] name = "Lat" -> "lat"
      [] name = "Lon" -> "lon"
      [] OTHER        -> name

Dataset(name, da) == [data_vars |-> <<[name |-> name, da |-> da]>>]

Entry(name, ds) == [name |-> name, ds |-> ds]

\* a missing value among rationals
NaNRat == [n |-> NaN, d |-> 1]

Label(text) == [kind |-> "label", text |-> text]

InDims(name, da) == \E i \in 1..Len(da.dims) : da.dims[i] = name

Cells(da) == DOMAIN da.vals

GridCells(lat, lon) == (1..Len(lat)) \X (1..Len(lon))

\* the cell of a 0-dimensional array
ScalarCell == <<0, 0>>

\* the cells in C order
CellSeq(da) ==
    IF Cells(da) = {ScalarCell} THEN <<ScalarCell>>
    ELSE [k \in 1..(Len(da.lat) * Len(da.lon)) |->
            <<((k - 1) \div Len(da.lon)) + 1, ((k - 1) % Len(da.lon)) + 1>>]

RECURSIVE Concat(_)
Concat(ss) == IF ss = <<>> THEN <<>> ELSE Head(ss) \o Concat(Tail(ss))

\* index_data.values.flatten()
Flatten(da) ==
    LET cs == CellSeq(da) IN Concat([k \in 1..Len(cs) |-> da.vals[cs[k]]])

-----------------------------------------------------------------------------
(* Error messages *)

\* no call has failed
NoError == <<>>

\* a handler that re-raises the cause as it is
Unwrapped(prefix, cause) == cause

\* raise Exception(f"<prefix>: {str(e)}"): the message as the sequence of its
\* parts, the prefix of the outermost handler first
Wrapped(prefix, cause) == <<prefix>> \o cause

-----------------------------------------------------------------------------
(* st.session_state of app.py *)

\* the value of a key that was never stored
Absent == [kind |-> "absent"]

\* the keys the pages of the app store under
SessionKeys ==
    {"imd_processed", "cmip6_processed", "regridded_data", "seasonal_data",
     "rainfall_indices", "ensemble_results", "generated_visualizations",
     "executive_summary"}

\* the session of a new browser tab (lines 30-39 store the components only)
NoSession == [k \in SessionKeys |-> Absent]

\* a message shown by st.success, st.warning or st.error, or the export
\* package offered for download
Shown(level, text, package) == [level |-> level, text |-> text, package |-> package]

NothingShown == Shown("none", "", Absent)

-----------------------------------------------------------------------------
(* DataProcessor.regrid_data; coordinates count quarter degrees *)

\* india_bounds, lines 13-16: 6.0, 37.0, 68.0, 97.0 degrees
india_lat_min == 24
india_lat_max == 148
india_lon_min == 272
india_lon_max == 388

\* np.arange(start, stop, step) for step > 0: start, start + step, ... below stop
Arange(start, stop, step) ==
    [k \in 1..Max(0, (stop - start + step - 1) \div step) |-> start + (k - 1) * step]

\* lines 67-71
TargetLat(resolution) == Arange(india_lat_min, india_lat_max + resolution, resolution)

\* lines 72-76
TargetLon(resolution) == Arange(india_lon_min, india_lon_max + resolution, resolution)

None == "<None>"

\* data.coords, in order: the dimension coordinates of the dataset
Coords(data) == data.data_vars[1].da.dims

\* _get_coord_name, lines 115-120
get_coord_name(data, possible_names) ==
    LET coords == Coords(data)
        hits   == {i \in 1..Len(coords) : Lower(coords[i]) \in possible_names}
    IN  IF hits = {} THEN None
        ELSE coords[CHOOSE i \in hits : \A j \in hits : i <= j]

LatCoord(data) == get_coord_name(data, {"lat", "latitude", "y"})
LonCoord(data) == get_coord_name(data, {"lon", "longitude", "x"})

\* line 99
CoordsUnresolved(data) == LatCoord(data) = None \/ LonCoord(data) = None

\* the target coordinate lies inside the source axis
InRange(x, xs) == xs[1] <= x /\ x <= xs[Len(xs)]

\* the lower of the two source points that bracket an in-range x
Bracket(x, xs) ==
    LET below == Cardinality({i \in 1..Len(xs) : xs[i] < x})
    IN  Max(1, IF below > Len(xs) - 1 THEN Len(xs) - 1 ELSE below)

\* linear interpolation in both axes at target point <<x, y>> of step t;
\* missing outside the source axes and where a bracketing value is missing
Bilinear(da, x, y, t) ==
    IF ~InRange(x, da.lat) \/ ~InRange(y, da.lon) THEN NaNRat
    ELSE LET i   == Bracket(x, da.lat)
             j   == Bracket(y, da.lon)
             x0  == da.lat[i]
             x1  == da.lat[i + 1]
             y0  == da.lon[j]
             y1  == da.lon[j + 1]
             v00 == da.vals[<<i, j>>][t]
             v10 == da.vals[<<i + 1, j>>][t]
             v01 == da.vals[<<i, j + 1>>][t]
             v11 == da.vals[<<i + 1, j + 1>>][t]
         IN  IF IsNaN(v00) \/ IsNaN(v10) \/ IsNaN(v01) \/ IsNaN(v11) THEN NaNRat
             ELSE Rat((x1 - x) * (y1 - y) * v00 + (x - x0) * (y1 - y) * v10
                      + (x1 - x) * (y - y0) * v01 + (x - x0) * (y - y0) * v11,
                      (x1 - x0) * (y1 - y0))

\* the number of steps along the leading axis
Steps(da) == Len(da.vals[CHOOSE c \in Cells(da) : TRUE])

\* data.interp({lat_coord: target_lat, lon_coord: target_lon}, method='linear')
\* of one variable, lines 103-106: the dimension names are kept
Interp(da, target_lat, target_lon) ==
    [da EXCEPT !.lat = target_lat,
               !.lon = target_lon,
               !.vals = [c \in GridCells(target_lat, target_lon) |->
                           [t \in 1..Steps(da) |->
                              Bilinear(da, target_lat[c[1]], target_lon[c[2]], t)]]]

\* a rename that leaves the native coordinate names in place
RenameNothing(da, lat_coord, lon_coord) == da

\* interpolated.rename({lat_coord: 'lat', lon_coord: 'lon'}), line 109
Rename(da, lat_coord, lon_coord) ==
    [da EXCEPT !.dims = [i \in 1..Len(da.dims) |->
                           IF da.dims[i] = lat_coord THEN "lat"
                           ELSE IF da.dims[i] = lon_coord THEN "lon"
                           ELSE da.dims[i]]]

\* _interpolate_to_grid, lines 92-113, for a dataset whose coordinates resolve
interpolate_to_grid(data, target_lat, target_lon) ==
    [data_vars |->
        [k \in 1..Len(data.data_vars) |->
            [name |-> data.data_vars[k].name,
             da   |-> Rename(Interp(data.data_vars[k].da, target_lat, target_lon),
                             LatCoord(data), LonCoord(data))]]]

\* the mapping regrid_data returns, lines 84-88
RegriddedPair(imd, cmip6, resolution) ==
    << Entry("imd", interpolate_to_grid(imd, TargetLat(resolution), TargetLon(resolution))),
       Entry("cmip6", interpolate_to_grid(cmip6, TargetLat(resolution), TargetLon(resolution))),
       [name |-> "target_grid", lat |-> TargetLat(resolution),
        lon |-> TargetLon(resolution)] >>

\* regrid_data raises when a coordinate name cannot be resolved (line 100)
RegridRaises(imd, cmip6) == CoordsUnresolved(imd) \/ CoordsUnresolved(cmip6)

\* regrid_data, lines 63-90
regrid_data ==
    /\ regrid_outcome = "pending"
    /\ IF RegridRaises(imd_data, cmip6_data)
       THEN /\ regrid_outcome' = "raised"
            /\ regridded_data' = <<>>
            /\ last_error' = Wrapped("Error regridding data",
                                Wrapped("Error interpolating data",
                                  <<"Could not identify lat/lon coordinates">>))
       ELSE /\ regrid_outcome' = "returned"
            /\ regridded_data' = RegriddedPair(imd_data, cmip6_data, target_resolution)
            /\ UNCHANGED last_error
    /\ UNCHANGED app_vars
    /\ UNCHANGED <<imd_data, cmip6_data, target_resolution, seasonal_data,
                   seasonal_outcome, indices_outcome, rainfall_indices, ensemble_results,
                   ensemble_outcome, regional_stats, regional_outcome, load_vars>>

-----------------------------------------------------------------------------
(* DataProcessor.load_netcdf_data *)

\* a file that xr.open_dataset cannot read
Unreadable == [readable |-> FALSE]

\* a file that holds the dataset ds
FileOf(ds) == [readable |-> TRUE, ds |-> ds]

\* lines 45-49: the last coordinate whose lower-cased name is in `names`
LastCoord(data, names) ==
    LET coords == Coords(data)
        hits   == {i \in 1..Len(coords) : Lower(coords[i]) \in names}
    IN  IF hits = {} THEN None
        ELSE coords[CHOOSE i \in hits : \A j \in hits : j <= i]

\* the positions of the axis values inside [lo, hi], ascending
Inside(axis, lo, hi) ==
    LET S == {i \in 1..Len(axis) : lo <= axis[i] /\ axis[i] <= hi}
    IN  [k \in 1..Cardinality(S) |->
            CHOOSE i \in S : Cardinality({j \in S : j < i}) = k - 1]

\* data.sel({lat_coord: slice(lat_min, lat_max), lon_coord: slice(lon_min,
\* lon_max)}) of one variable, lines 53-56
Sel(da, rows, cols) ==
    [da EXCEPT !.lat = [i \in 1..Len(rows) |-> da.lat[rows[i]]],
               !.lon = [j \in 1..Len(cols) |-> da.lon[cols[j]]],
               !.vals = [c \in (1..Len(rows)) \X (1..Len(cols)) |->
                           da.vals[<<rows[c[1]], cols[c[2]]>>]]]

\* clip_to_india, lines 35-61
clip_to_india(data) ==
    IF LastCoord(data, {"lat", "latitude", "y", "rlat"}) # None
       /\ LastCoord(data, {"lon", "longitude", "x", "rlon"}) # None
    THEN [data_vars |->
            [k \in 1..Len(data.data_vars) |->
               [name |-> data.data_vars[k].name,
                da   |-> LET da == data.data_vars[k].da
                         IN  Sel(da, Inside(da.lat, india_lat_min, india_lat_max),
                                 Inside(da.lon, india_lon_min, india_lon_max))]]]
    ELSE data

\* load_netcdf_data, lines 18-33
load_netcdf_data ==
    /\ load_outcome = "pending"
    /\ IF ~file_path.readable
       THEN /\ load_outcome' = "raised"
            /\ loaded_data' = <<>>
            /\ last_error' = Wrapped("Error loading NetCDF data",
                                     <<"No such file or directory">>)
       ELSE /\ load_outcome' = "returned"
            /\ loaded_data' = clip_to_india(file_path.ds)
            /\ UNCHANGED last_error
    /\ UNCHANGED app_vars
    /\ UNCHANGED <<file_path, regrid_vars, seasonal_data, seasonal_outcome,
                   indices_outcome, rainfall_indices, ensemble_results,
                   ensemble_outcome, regional_stats, regional_outcome>>

-----------------------------------------------------------------------------
(* Datasets and resolutions handed to regrid_data *)

\* native latitude axes: the whole box, a part of it, 40 to 45 degrees north
SourceLats == {<<24, 86, 148>>, <<40, 60>>, <<160, 180>>}

\* native longitude axes: the whole box, 100 to 105 degrees east
SourceLons == {<<272, 388>>, <<400, 420>>}

SourceDims == {<<"time", "lat", "lon">>, <<"time", "latitude", "longitude">>,
               <<"time", "y", "x">>, <<"time", "Lat", "Lon">>,
               <<"time", "rlat", "rlon">>}

\* value patterns of a native field: a constant, or missing at the first
\* latitude and constant elsewhere
SourceField(dims, lat, lon, first, rest) ==
    DataArray(dims, "mm/day", lat, lon,
              [c \in GridCells(lat, lon) |->
                 [t \in 1..RegridSteps |-> IF c[1] = 1 THEN first ELSE rest]])

Sources ==
    {Dataset("pr", SourceField(dims, lat, lon, first, rest)) :
        dims \in SourceDims, lat \in SourceLats, lon \in SourceLons,
        first \in {NaN, 500}, rest \in {0, 500}}

FewSources ==
    {Dataset("rainfall", SourceField(dims, lat, <<272, 330, 388>>, 500, v)) :
        dims \in {<<"time", "lat", "lon">>, <<"time", "latitude", "longitude">>},
        lat \in {<<24, 86, 148>>, <<160, 180>>}, v \in {0, NaN}}

\* resolutions in quarter degrees: 5, 7.75, 14.5, 31 and 50 degrees
CoarseResolutions == {20, 31, 58, 124, 200}

\* 0.25 (the application's resolution) and 1 degree
FineResolutions == {1, 4}

InitRegrid ==
    /\ \/ /\ target_resolution \in CoarseResolutions
          /\ imd_data \in FewSources
          /\ cmip6_data \in Sources
       \/ /\ target_resolution \in FineResolutions
          /\ imd_data = Dataset("rainfall",
                          SourceField(<<"time", "lat", "lon">>, <<24, 86, 148>>,
                                      <<272, 330, 388>>, 500, 0))
          /\ cmip6_data \in {Dataset("pr", SourceField(<<"time", "latitude", "longitude">>,
                                        lat, <<272, 388>>, 500, 500)) :
                               lat \in {<<40, 60>>, <<160, 180>>}}
    /\ regridded_data = <<>>
    /\ regrid_outcome = "pending"
    /\ seasonal_data = <<>>
    /\ seasonal_outcome = "returned"
    /\ indices_outcome = "returned"
    /\ rainfall_indices = <<>>
    /\ ensemble_results = <<>>
    /\ ensemble_outcome = "returned"
    /\ regional_stats = <<>>
    /\ regional_outcome = "returned"
    /\ last_error = NoError
    /\ session_state = NoSession
    /\ page_output = NothingShown
    /\ file_path = <<>>
    /\ loaded_data = <<>>
    /\ load_outcome = "returned"

NextRegrid == regrid_data

SpecRegrid == InitRegrid /\ [][NextRegrid]_vars

-----------------------------------------------------------------------------
(* Files handed to load_netcdf_data *)

Files == {Unreadable} \cup {FileOf(ds) : ds \in Sources \cup FewSources}

InitLoad ==
    /\ file_path \in Files
    /\ loaded_data = <<>>
    /\ load_outcome = "pending"
    /\ imd_data = <<>>
    /\ cmip6_data = <<>>
    /\ target_resolution = 1
    /\ regridded_data = <<>>
    /\ regrid_outcome = "returned"
    /\ seasonal_data = <<>>
    /\ seasonal_outcome = "returned"
    /\ indices_outcome = "returned"
    /\ rainfall_indices = <<>>
    /\ ensemble_results = <<>>
    /\ ensemble_outcome = "returned"
    /\ regional_stats = <<>>
    /\ regional_outcome = "returned"
    /\ last_error = NoError
    /\ session_state = NoSession
    /\ page_output = NothingShown

NextLoad == load_netcdf_data

SpecLoad == InitLoad /\ [][NextLoad]_vars

-----------------------------------------------------------------------------
(* Claims about regrid_data, checked under SpecRegrid *)

RegridReturned == regrid_outcome = "returned"

RegriddedImd   == regridded_data[1].ds.data_vars[1].da
RegriddedCmip6 == regridded_data[2].ds.data_vars[1].da
TargetGrid     == regridded_data[3]

\* C8: the two members returned by regrid_data, 'imd' and 'cmip6', have lat
\* and lon coordinate arrays identical to each other and to the returned
\* target_grid arrays, whatever the coordinate names and native grids of the
\* inputs, and both use the names 'lat' and 'lon'.
C8_SharedTargetGrid ==
    RegridReturned =>
        /\ regridded_data[1].name = "imd"
        /\ regridded_data[2].name = "cmip6"
        /\ TargetGrid.name = "target_grid"
        /\ RegriddedImd.lat = RegriddedCmip6.lat
        /\ RegriddedImd.lon = RegriddedCmip6.lon
        /\ RegriddedImd.lat = TargetGrid.lat
        /\ RegriddedImd.lon = TargetGrid.lon
        /\ Cells(RegriddedImd) = GridCells(TargetGrid.lat, TargetGrid.lon)
        /\ Cells(RegriddedCmip6) = GridCells(TargetGrid.lat, TargetGrid.lon)
        /\ RegriddedImd.dims = <<"time", "lat", "lon">>
        /\ RegriddedCmip6.dims = <<"time", "lat", "lon">>

\* inputs named lat/lon and latitude/longitude on different native grids,
\* regridded at 0.25 degrees onto the same 125 x 117 grid
C8_Witness ==
    /\ RegridReturned
    /\ target_resolution = 1
    /\ imd_data.data_vars[1].da.dims = <<"time", "lat", "lon">>
    /\ cmip6_data.data_vars[1].da.dims = <<"time", "latitude", "longitude">>
    /\ imd_data.data_vars[1].da.lat # cmip6_data.data_vars[1].da.lat
    /\ Len(RegriddedImd.lat) = 125
    /\ Len(RegriddedCmip6.lon) = 117
    /\ RegriddedCmip6.dims = <<"time", "lat", "lon">>

\* C9 as claimed: the target coordinates are start, start + r, ... and none
\* exceeds the bounding-box maximum (latitudes within [6, 37], longitudes
\* within [68, 97]), also when r does not divide the extent; the maximum is
\* included when r divides the extent.
C9_TargetWithinBounds ==
    RegridReturned =>
        /\ \A i \in 1..Len(TargetGrid.lat) :
              /\ TargetGrid.lat[i] = india_lat_min + (i - 1) * target_resolution
              /\ TargetGrid.lat[i] <= india_lat_max
        /\ \A j \in 1..Len(TargetGrid.lon) :
              /\ TargetGrid.lon[j] = india_lon_min + (j - 1) * target_resolution
              /\ TargetGrid.lon[j] <= india_lon_max
        /\ (india_lat_max - india_lat_min) % target_resolution = 0
              => TargetGrid.lat[Len(TargetGrid.lat)] = india_lat_max
        /\ (india_lon_max - india_lon_min) % target_resolution = 0
              => TargetGrid.lon[Len(TargetGrid.lon)] = india_lon_max

\* the source axes of the dataset do not meet the target axes
NoOverlap(data, resolution) ==
    LET da == data.data_vars[1].da
        tlat == TargetLat(resolution)
        tlon == TargetLon(resolution)
    IN  \/ da.lat[Len(da.lat)] < tlat[1]
        \/ da.lat[1] > tlat[Len(tlat)]
        \/ da.lon[Len(da.lon)] < tlon[1]
        \/ da.lon[1] > tlon[Len(tlon)]

AllMissing(da) ==
    \A c \in Cells(da) : \A t \in 1..Len(da.vals[c]) : da.vals[c][t] = NaNRat

\* C10 as claimed: regrid_data fails with an error, returning no pair,
\* whenever the extent of either input does not overlap the target extent, so
\* that its interpolation is entirely missing.
C10_NoOverlapRaises ==
    (/\ regrid_outcome # "pending"
     /\ \/ NoOverlap(imd_data, target_resolution)
        \/ NoOverlap(cmip6_data, target_resolution))
        => regrid_outcome = "raised"

-----------------------------------------------------------------------------
(* ClimateAnalyzer: the index engine *)

\* 86400 of lines 96, 99, 122, ...: seconds per day
SecondsPerDay == 86400

\* threshold=1.0 of lines 165, 181, 195 and the `< 1` of lines 121, 138, ...
OneMillimetre == 100

\* threshold=100.0 of line 54
HeavyThreshold == 10000

\* the 0.1 of line 103
TenthMillimetre == 10

\* sum(skipna=True) of a sequence: missing values contribute nothing
RECURSIVE NanSum(_)
NanSum(s) ==
    IF s = <<>> THEN 0
    ELSE (IF IsNaN(Head(s)) THEN 0 ELSE Head(s)) + NanSum(Tail(s))

\* max() of a sequence, skipping missing values; NaN when all are missing
RECURSIVE NanMax(_)
NanMax(s) ==
    IF s = <<>> THEN NaN
    ELSE LET m == NanMax(Tail(s))
         IN  IF IsNaN(Head(s)) THEN m
             ELSE IF IsNaN(m) THEN Head(s) ELSE Max(Head(s), m)

\* rainfall_data.max()
FieldMax(da) == NanMax(Flatten(da))

\* `rainfall_data.max() < bound`: a comparison with NaN is False
MaxBelow(da, bound) == ~IsNaN(FieldMax(da)) /\ FieldMax(da) < bound

\* rainfall_data * k: element-wise, NaN stays NaN, attributes are dropped
Times(da, k) ==
    DataArray(da.dims, NoUnits, da.lat, da.lon,
              [c \in Cells(da) |->
                 [t \in 1..Len(da.vals[c]) |->
                    IF IsNaN(da.vals[c][t]) THEN NaN ELSE da.vals[c][t] * k]])

\* the dims left when dimension `axis` is reduced away
RECURSIVE Without(_, _)
Without(dims, axis) ==
    IF dims = <<>> THEN <<>>
    ELSE IF Head(dims) = axis THEN Tail(dims)
         ELSE <<Head(dims)>> \o Without(Tail(dims), axis)

\* da.<reduction>(dim=axis): one value per cell
\* (`reduced` maps each cell to the reduction of its series)
ReduceAxis(da, axis, reduced) ==
    DataArray(Without(da.dims, axis), NoUnits, da.lat, da.lon,
              [c \in Cells(da) |-> <<reduced[c]>>])

\* da.<reduction>() over every dimension: a 0-dimensional array
ScalarArray(v) ==
    DataArray(<<>>, NoUnits, <<>>, <<>>, [c \in {ScalarCell} |-> <<v>>])

\* 'time' if 'time' in rainfall_data.dims else 'year'
TimeOrYear(da) == IF InDims("time", da) THEN "time" ELSE "year"

\* the units strings in which line 94 or line 97 finds a flux unit
IsFluxUnit(units) ==
    \/ units \in {"kg m-2 s-1", "kg/m2/s"}
    \/ units = "mm/s"

\* lines 92-104: whether _calculate_prcptot multiplies by 86400
PrcptotConverts(rainfall_data) ==
    IF rainfall_data.units # NoUnits
    THEN IsFluxUnit(rainfall_data.units)
    ELSE MaxBelow(rainfall_data, TenthMillimetre)

\* lines 121, 138, 155, 169, 185, 199: `if rainfall_data.max() < 1`
MagnitudeConverts(rainfall_data) == MaxBelow(rainfall_data, OneMillimetre)

ToMmPerDay(converts, rainfall_data) ==
    IF converts THEN Times(rainfall_data, SecondsPerDay) ELSE rainfall_data

\* _calculate_prcptot, lines 88-115
calculate_prcptot(rainfall_data) ==
    LET d == ToMmPerDay(PrcptotConverts(rainfall_data), rainfall_data)
    IN  IF InDims("time", d) THEN ReduceAxis(d, "time",
                        [c \in Cells(d) |-> NanSum(d.vals[c])])
        ELSE IF InDims("year", d) THEN ReduceAxis(d, "year",
                        [c \in Cells(d) |-> NanSum(d.vals[c])])
        ELSE ScalarArray(NanSum(Flatten(d)))

\* _calculate_rx1day, lines 117-132
calculate_rx1day(rainfall_data) ==
    LET d == ToMmPerDay(MagnitudeConverts(rainfall_data), rainfall_data)
    IN  IF InDims("time", d) THEN ReduceAxis(d, "time",
                        [c \in Cells(d) |-> NanMax(d.vals[c])])
        ELSE IF InDims("year", d) THEN ReduceAxis(d, "year",
                        [c \in Cells(d) |-> NanMax(d.vals[c])])
        ELSE ScalarArray(NanMax(Flatten(d)))

\* a rolling sum that also accepts incomplete windows (min_periods=1)
RollingSum5Partial(s) ==
    [t \in 1..Len(s) |->
        NanSum([u \in 1..5 |->
                  IF t + u - 3 \in 1..Len(s) THEN s[t + u - 3] ELSE NaN])]

\* rolling(time=5, center=True).sum(): the sum of steps t-2 .. t+2 where all
\* five exist and none is missing, NaN elsewhere
RollingSum5(s) ==
    [t \in 1..Len(s) |->
        IF /\ t - 2 >= 1
           /\ t + 2 <= Len(s)
           /\ \A u \in (t - 2)..(t + 2) : ~IsNaN(s[u])
        THEN s[t - 2] + s[t - 1] + s[t] + s[t + 1] + s[t + 2]
        ELSE NaN]

RollingMax5(s) == NanMax(RollingSum5(s))

\* _calculate_rx5day, lines 134-149
calculate_rx5day(rainfall_data) ==
    LET d == ToMmPerDay(MagnitudeConverts(rainfall_data), rainfall_data)
    IN  IF InDims("time", d) THEN ReduceAxis(d, "time",
                        [c \in Cells(d) |-> RollingMax5(d.vals[c])])
        ELSE Times(d, 5)

\* a heavy-rain test that also counts a step of exactly the threshold
IsHeavyInclusive(v) == ~IsNaN(v) /\ v >= HeavyThreshold

\* a wet test in which a missing step passes as wet
IsWetOrMissing(v) == IsNaN(v) \/ v >= OneMillimetre

\* a dry test that also counts a step of exactly the threshold
IsDryInclusive(v) == ~IsNaN(v) /\ v <= OneMillimetre

\* rainfall_data > threshold (line 159)
IsHeavy(v) == ~IsNaN(v) /\ v > HeavyThreshold
IsDry(v)   == ~IsNaN(v) /\ v < OneMillimetre
IsWet(v)   == ~IsNaN(v) /\ v >= OneMillimetre

CountHeavy(s) == Cardinality({t \in 1..Len(s) : IsHeavy(s[t])})
CountDry(s)   == Cardinality({t \in 1..Len(s) : IsDry(s[t])})
CountWet(s)   == Cardinality({t \in 1..Len(s) : IsWet(s[t])})

\* _calculate_heavy_rain_days, lines 151-163
calculate_heavy_rain_days(rainfall_data) ==
    LET d == ToMmPerDay(MagnitudeConverts(rainfall_data), rainfall_data)
    IN  ReduceAxis(d, TimeOrYear(d),
                        [c \in Cells(d) |-> CountHeavy(d.vals[c])])

\* _calculate_consecutive_dry_days, lines 165-179
calculate_consecutive_dry_days(rainfall_data) ==
    LET d == ToMmPerDay(MagnitudeConverts(rainfall_data), rainfall_data)
    IN  ReduceAxis(d, TimeOrYear(d),
                        [c \in Cells(d) |-> CountDry(d.vals[c])])

\* _calculate_consecutive_wet_days, lines 181-193
calculate_consecutive_wet_days(rainfall_data) ==
    LET d == ToMmPerDay(MagnitudeConverts(rainfall_data), rainfall_data)
    IN  ReduceAxis(d, TimeOrYear(d),
                        [c \in Cells(d) |-> CountWet(d.vals[c])])

\* rainfall_data.where(wet_days).sum(dim): the sum of the wet steps
WetSum(s) == NanSum([t \in 1..Len(s) |-> IF IsWet(s[t]) THEN s[t] ELSE NaN])

\* an intensity without the final fillna(0): a missing value where no step is wet
IntensityNoFill(s) ==
    IF CountWet(s) > 0 THEN Rat(WetSum(s), CountWet(s)) ELSE NaNRat

\* lines 208-210: total / count.where(count > 0), then fillna(0)
Intensity(s) ==
    IF CountWet(s) > 0 THEN Rat(WetSum(s), CountWet(s)) ELSE RatInt(0)

\* _calculate_sdii, lines 195-212; the values are rationals
calculate_sdii(rainfall_data) ==
    LET d == ToMmPerDay(MagnitudeConverts(rainfall_data), rainfall_data)
    IN  ReduceAxis(d, TimeOrYear(d),
                        [c \in Cells(d) |-> Intensity(d.vals[c])])

\* .sum(dim=...) over a dimension the array does not have raises ValueError
\* (lines 159, 177, 191, 204)
NoReductionAxis(rainfall_data) ==
    ~InDims("time", rainfall_data) /\ ~InDims("year", rainfall_data)

possible_names == {"pr", "precipitation", "precip", "rain", "rainfall", "pcp"}


\* _identify_rainfall_variable, lines 77-86: the index of the variable, 0 for None
identify_rainfall_variable(data) ==
    LET hits == {i \in 1..Len(data.data_vars) :
                    Lower(data.data_vars[i].name) \in possible_names}
    IN  IF hits # {} THEN CHOOSE i \in hits : \A j \in hits : i <= j
        ELSE IF Len(data.data_vars) > 0 THEN 1 ELSE 0

\* a selection that always takes the first entry of the mapping
SelectFirstDataset(seasonal) == seasonal[1].ds

\* lines 26-30: the 'cmip6' entry, else the first entry of the mapping
SelectDataset(seasonal) ==
    LET hits == {i \in 1..Len(seasonal) : seasonal[i].name = "cmip6"}
    IN  IF hits # {} THEN seasonal[CHOOSE i \in hits : TRUE].ds
        ELSE seasonal[1].ds

SelectedRainfall(seasonal) ==
    LET data == SelectDataset(seasonal)
    IN  data.data_vars[identify_rainfall_variable(data)].da

HasLatLon(da) == InDims("lat", da) /\ InDims("lon", da)

\* the cases in which calculate_rainfall_indices raises: no data variable
\* (line 35), a reduction over a missing dimension, lat.values[1] of a
\* one-row grid (line 70)
IndicesRaise(seasonal) ==
    \/ identify_rainfall_variable(SelectDataset(seasonal)) = 0
    \/ NoReductionAxis(SelectedRainfall(seasonal))
    \/ /\ HasLatLon(SelectedRainfall(seasonal))
       /\ Len(SelectedRainfall(seasonal).lat) < 2

\* the exception that is caught at line 74
IndicesCause(seasonal) ==
    IF identify_rainfall_variable(SelectDataset(seasonal)) = 0
    THEN <<"Could not identify rainfall variable in dataset">>
    ELSE IF NoReductionAxis(SelectedRainfall(seasonal))
         THEN <<"ValueError: dimension not found in the array">>
         ELSE <<"index 1 is out of bounds for axis 0 with size 1">>

\* the IndexSet, lines 23-73
IndexSet(seasonal, scenario, baseline_period) ==
    LET rainfall_data == SelectedRainfall(seasonal)
        keys == {"raw_data", "scenario", "baseline_period", "PRCPTOT", "Rx1day",
                 "Rx5day", "heavy_rain_days", "CDD", "CWD", "SDII"}
                \cup (IF HasLatLon(rainfall_data) THEN {"spatial_info"} ELSE {})
    IN  [k \in keys |->
          CASE k = "raw_data"        -> rainfall_data
            [] k = "scenario"        -> Label(scenario)
            [] k = "baseline_period" -> Label(baseline_period)
            [] k = "PRCPTOT"         -> calculate_prcptot(rainfall_data)
            [] k = "Rx1day"          -> calculate_rx1day(rainfall_data)
            [] k = "Rx5day"          -> calculate_rx5day(rainfall_data)
            [] k = "heavy_rain_days" -> calculate_heavy_rain_days(rainfall_data)
            [] k = "CDD"  -> calculate_consecutive_dry_days(rainfall_data)
            [] k = "CWD"  -> calculate_consecutive_wet_days(rainfall_data)
            [] k = "SDII" -> calculate_sdii(rainfall_data)
            [] k = "spatial_info" ->
                 [kind |-> "info", lat |-> rainfall_data.lat,
                  lon |-> rainfall_data.lon,
                  resolution |-> Abs(rainfall_data.lat[2] - rainfall_data.lat[1])]]

Scenarios == {"SSP2-4.5", "SSP5-8.5"}

\* calculate_rainfall_indices, lines 20-75
calculate_rainfall_indices ==
    /\ indices_outcome = "pending"
    /\ IF IndicesRaise(seasonal_data)
       THEN /\ indices_outcome' = "raised"
            /\ rainfall_indices' = <<>>
            /\ last_error' = Wrapped("Error calculating rainfall indices",
                                     IndicesCause(seasonal_data))
       ELSE /\ indices_outcome' = "returned"
            /\ \E scenario \in Scenarios :
                 rainfall_indices' = IndexSet(seasonal_data, scenario, "1990-2019")
            /\ UNCHANGED last_error
    /\ UNCHANGED app_vars
    /\ UNCHANGED <<regrid_vars, seasonal_data, seasonal_outcome, ensemble_results,
                   ensemble_outcome, regional_stats, regional_outcome, load_vars>>

-----------------------------------------------------------------------------
(* Series handed to calculate_rainfall_indices *)

\* sample values in hundredths of a millimetre per day: missing, 0, 0.05,
\* 0.5, 1.0, 5.0, 100.0 and 100.01
IdxValues == {NaN, 0, 5, 50, 100, 500, 10000, 10001}

\* values of the second cell
BackgroundValues == {NaN, 0, 50, 500}

UnitsChoices == {NoUnits, "mm/day", "kg m-2 s-1", "mm/s"}

\* the latitudes and longitudes of the sample grid, in degrees
SampleLat == <<6, 7>>
SampleLon == <<68>>

\* a series over the sample grid: cell <<1, 1>> holds `series`, the other
\* cell the constant `background`
SampleField(axis, units, series, background) ==
    DataArray(IF axis = "none" THEN <<"lat", "lon">> ELSE <<axis, "lat", "lon">>,
              units, SampleLat, SampleLon,
              [c \in GridCells(SampleLat, SampleLon) |->
                 IF c = <<1, 1>> THEN series
                 ELSE [t \in 1..Len(series) |-> background]])

\* a series equal to `base` except for `special` at step `pos`
Patterned(len, base, pos, special) ==
    [t \in 1..len |-> IF t = pos THEN special ELSE base]

PatternedSeries ==
    {Patterned(MaxT, b, p, v) : b \in IdxValues, p \in 1..MaxT, v \in IdxValues}
    \cup {<<v>> : v \in IdxValues}

\* series two steps longer, which hold several windows of five steps
LongerSeries ==
    {Patterned(MaxT + 2, b, p, v) :
        b \in {NaN, 0, 500}, p \in 1..(MaxT + 2), v \in {NaN, 50, 10000}}

\* a field declared in a flux unit holds flux magnitudes
Plausible(da) ==
    IsFluxUnit(da.units) => \A v \in {Flatten(da)[i] : i \in 1..Len(Flatten(da))} :
                               v <= 500

SampleFields ==
    {da \in
       {SampleField(axis, units, s, c) :
           axis \in {"time", "year"}, units \in UnitsChoices,
           s \in PatternedSeries, c \in BackgroundValues}
       \cup {SampleField("none", units, <<v>>, c) :
               units \in UnitsChoices, v \in IdxValues, c \in BackgroundValues}
       \cup {SampleField("time", NoUnits, s, 500) : s \in LongerSeries}
       \cup {SampleField("time", units, [t \in 1..SeasonDays |-> c], c) :
               units \in {NoUnits, "mm/day"}, c \in IdxValues \ {NaN}} :
     Plausible(da)}

NoVariables == [data_vars |-> <<>>]

SeasonalInputs ==
    {<<Entry("cmip6", Dataset("pr", da))>> : da \in SampleFields}
    \cup {<<Entry("imd", Dataset(n, SampleField("year", NoUnits, <<v, v>>, 0)))>> :
            n \in {"rainfall", "PR", "tas"}, v \in {50, 500}}
    \cup {<<Entry("imd", Dataset("rainfall", SampleField("year", NoUnits, <<v>>, 0))),
            Entry("cmip6", Dataset("pr", SampleField("year", NoUnits, <<w>>, 0)))>> :
            v \in {50, 500}, w \in {50, 500}}
    \cup {<<Entry("cmip6", NoVariables)>>}

InitIndices ==
    /\ imd_data = <<>>
    /\ cmip6_data = <<>>
    /\ target_resolution = 1
    /\ regridded_data = <<>>
    /\ regrid_outcome = "returned"
    /\ seasonal_data \in SeasonalInputs
    /\ seasonal_outcome = "returned"
    /\ indices_outcome = "pending"
    /\ rainfall_indices = <<>>
    /\ ensemble_results = <<>>
    /\ ensemble_outcome = "returned"
    /\ regional_stats = <<>>
    /\ regional_outcome = "returned"
    /\ last_error = NoError
    /\ session_state = NoSession
    /\ page_output = NothingShown
    /\ file_path = <<>>
    /\ loaded_data = <<>>
    /\ load_outcome = "returned"

NextIndices == calculate_rainfall_indices

SpecIndices == InitIndices /\ [][NextIndices]_vars

-----------------------------------------------------------------------------
(* Claims about calculate_rainfall_indices, checked under SpecIndices *)

IndicesReturned == indices_outcome = "returned"

\* the series the returned IndexSet was computed from
Raw == rainfall_indices["raw_data"]

\* C3 as claimed: PRCPTOT applies the x86400 conversion to every field whose
\* maximum is below 1 mm/day and to no field whose maximum is at least 1, so
\* every cell's PRCPTOT is the sum of the cell's steps, times 86400 exactly
\* when the field's maximum is below 1.
C3_PrcptotConvertsBelowOne ==
    IndicesReturned =>
        \A c \in Cells(Raw) :
            rainfall_indices["PRCPTOT"].vals[c] =
                <<NanSum(Raw.vals[c])
                    * (IF MaxBelow(Raw, OneMillimetre) THEN SecondsPerDay ELSE 1)>>

\* the series in the unit _calculate_sdii works in
SdiiSeries(c) == ToMmPerDay(MaxBelow(Raw, OneMillimetre), Raw).vals[c]

WetSteps(s) == {t \in 1..Len(s) : s[t] # NaN /\ s[t] >= OneMillimetre}

RECURSIVE SumOver(_, _)
SumOver(s, T) ==
    IF T = {} THEN 0
    ELSE LET t == CHOOSE t \in T : TRUE IN s[t] + SumOver(s, T \ {t})

ConstantSeries(s, k) == \A t \in 1..Len(s) : s[t] = k

\* C4: a cell with zero wet days (all steps below 1 mm/day or missing) has
\* SDII exactly 0; a cell with wet days has SDII = (sum of the wet-day
\* values) / (number of wet days).
C4_SdiiZeroGuard ==
    IndicesReturned =>
        \A c \in Cells(Raw) :
            LET s    == SdiiSeries(c)
                sdii == rainfall_indices["SDII"].vals[c][1]
            IN  /\ Len(rainfall_indices["SDII"].vals[c]) = 1
                /\ sdii.d > 0
                /\ WetSteps(s) = {} => sdii = [n |-> 0, d |-> 1]
                /\ WetSteps(s) # {} =>
                     sdii.n * Cardinality(WetSteps(s)) = SumOver(s, WetSteps(s)) * sdii.d

\* a cell with one dry step and missing steps otherwise has SDII 0, beside a
\* cell of 5 mm/day whose SDII is 5
C4_Witness ==
    /\ IndicesReturned
    /\ Len(Raw.vals[<<1, 1>>]) = MaxT
    /\ \E p \in 1..MaxT :
          \A t \in 1..MaxT : Raw.vals[<<1, 1>>][t] = IF t = p THEN 50 ELSE NaN
    /\ ConstantSeries(Raw.vals[<<2, 1>>], 500)
    /\ rainfall_indices["SDII"].vals[<<1, 1>>] = <<[n |-> 0, d |-> 1]>>
    /\ rainfall_indices["SDII"].vals[<<2, 1>>] = <<[n |-> 500, d |-> 1]>>

\* every value of the field is the constant k
ConstantField(da, k) == \A c \in Cells(da) : ConstantSeries(da.vals[c], k)

\* the first value of the field
FirstValue(da) == da.vals[CellSeq(da)[1]][1]

\* C6: a daily field with a time axis, declared in mm/day, constant c with
\* 1 <= c <= 100 over T steps, gives in every cell PRCPTOT = c*T, Rx1day = c,
\* heavy_rain_days = 0 and SDII = c (610, 5, 0, 5 for c = 5 and T = 122).
C6_ConstantField ==
    (/\ IndicesReturned
     /\ InDims("time", Raw)
     /\ Raw.units = "mm/day"
     /\ ConstantField(Raw, FirstValue(Raw))
     /\ FirstValue(Raw) # NaN
     /\ OneMillimetre <= FirstValue(Raw)
     /\ FirstValue(Raw) <= HeavyThreshold) =>
        LET k == FirstValue(Raw)
        IN  \A c \in Cells(Raw) :
                /\ rainfall_indices["PRCPTOT"].vals[c] = <<k * Len(Raw.vals[c])>>
                /\ rainfall_indices["Rx1day"].vals[c] = <<k>>
                /\ rainfall_indices["heavy_rain_days"].vals[c] = <<0>>
                /\ rainfall_indices["SDII"].vals[c] = <<[n |-> k, d |-> 1]>>

\* the constant 5 mm/day over 122 days: 610, 5, 0, 5
C6_Witness ==
    /\ IndicesReturned
    /\ InDims("time", Raw)
    /\ Raw.units = "mm/day"
    /\ ConstantField(Raw, 500)
    /\ \A c \in Cells(Raw) :
        /\ Len(Raw.vals[c]) = 122
        /\ rainfall_indices["PRCPTOT"].vals[c] = <<61000>>
        /\ rainfall_indices["Rx1day"].vals[c] = <<500>>
        /\ rainfall_indices["heavy_rain_days"].vals[c] = <<0>>
        /\ rainfall_indices["SDII"].vals[c] = <<[n |-> 500, d |-> 1]>>

IndexNames == {"PRCPTOT", "Rx1day", "Rx5day", "heavy_rain_days", "CDD", "CWD", "SDII"}

\* the array has the year axis reduced away and the spatial shape of `source`
ReducedOver(source, da) ==
    /\ da.dims = <<"lat", "lon">>
    /\ Len(da.lat) = Len(source.lat)
    /\ Len(da.lon) = Len(source.lon)
    /\ Cells(da) = Cells(source)
    /\ \A c \in Cells(da) : Len(da.vals[c]) = 1

\* C7 as claimed: from a series whose reduction axis is 'year', each of the
\* seven index fields has that axis reduced away and has exactly the spatial
\* (lat, lon) shape of its source.
C7_IndexFieldsSpatial ==
    (IndicesReturned /\ InDims("year", Raw)) =>
        \A k \in IndexNames : ReducedOver(Raw, rainfall_indices[k])

\* the steps of cell c in mm/day: a field whose maximum is below 1 is taken
\* as a flux
InMmPerDay(c) ==
    LET top == {Flatten(Raw)[i] : i \in 1..Len(Flatten(Raw))} \ {NaN}
    IN  [t \in 1..Len(Raw.vals[c]) |->
           IF Raw.vals[c][t] = NaN THEN NaN
           ELSE IF \A v \in top : v < 100 THEN Raw.vals[c][t] * 86400
                ELSE Raw.vals[c][t]]

\* the steps of s with a value of at least lo, and those with a value below hi
StepsFrom(s, lo)  == {t \in 1..Len(s) : s[t] # NaN /\ s[t] >= lo}
StepsBelow(s, hi) == {t \in 1..Len(s) : s[t] # NaN /\ s[t] < hi}

\* C20: the thresholds are exact: a step of exactly 100 mm/day is not counted
\* in heavy_rain_days (more than 100 is required), a step of exactly 1.0
\* mm/day is wet for CWD and SDII and not dry for CDD, and a step below 1.0
\* mm/day is counted in CDD only.
C20_ExactThresholds ==
    IndicesReturned =>
        \A c \in Cells(Raw) :
            LET s     == InMmPerDay(c)
                heavy == StepsFrom(s, 10001)
                wet   == StepsFrom(s, 100)
                dry   == StepsBelow(s, 100)
                sdii  == rainfall_indices["SDII"].vals[c][1]
            IN  /\ rainfall_indices["heavy_rain_days"].vals[c] = <<Cardinality(heavy)>>
                /\ rainfall_indices["CWD"].vals[c] = <<Cardinality(wet)>>
                /\ rainfall_indices["CDD"].vals[c] = <<Cardinality(dry)>>
                /\ sdii.n * Cardinality(wet) = SumOver(s, wet) * sdii.d
                /\ dry \cap wet = {} /\ dry \cap heavy = {}

\* four steps of exactly 100 mm/day and one of exactly 1.0 mm/day: no heavy
\* day, five wet days, no dry day, SDII 80.2
C20_Witness ==
    /\ IndicesReturned
    /\ \E p \in 1..MaxT :
          Raw.vals[<<1, 1>>] = [t \in 1..MaxT |-> IF t = p THEN 100 ELSE 10000]
    /\ rainfall_indices["heavy_rain_days"].vals[<<1, 1>>] = <<0>>
    /\ rainfall_indices["CWD"].vals[<<1, 1>>] = <<MaxT>>
    /\ rainfall_indices["CDD"].vals[<<1, 1>>] = <<0>>
    /\ rainfall_indices["SDII"].vals[<<1, 1>>] = <<Rat(4 * 10000 + 100, 5)>>

\* the starts of the windows of five consecutive steps of s without a
\* missing step
Windows(s) ==
    {i \in 1..(Len(s) - 4) : \A u \in i..(i + 4) : s[u] # NaN}

\* C21: for a series with a time axis, Rx5day of each cell equals the
\* maximum, over all windows of 5 consecutive time steps, of the sum of the
\* window's values (missing where no window is complete); for a series
\* without a time axis, Rx5day equals the input value times 5.
C21_Rx5dayRollingMax ==
    IndicesReturned =>
        \A c \in Cells(Raw) :
            LET s   == InMmPerDay(c)
                rx5 == rainfall_indices["Rx5day"].vals[c]
            IN  IF InDims("time", Raw)
                THEN /\ Len(rx5) = 1
                     /\ \A i \in Windows(s) : SumOver(s, i..(i + 4)) <= rx5[1]
                     /\ Windows(s) # {} =>
                           \E i \in Windows(s) : SumOver(s, i..(i + 4)) = rx5[1]
                     /\ Windows(s) = {} => rx5[1] = NaN
                ELSE /\ Len(rx5) = Len(s)
                     /\ \A t \in 1..Len(s) :
                           rx5[t] = IF s[t] = NaN THEN NaN ELSE s[t] * 5

\* a series of MaxT + 2 steps of 5 mm/day with 100 mm/day at one step holds
\* several windows and has Rx5day 120 mm
C21_Witness ==
    /\ IndicesReturned
    /\ InDims("time", Raw)
    /\ \E p \in 1..(MaxT + 2) :
          Raw.vals[<<1, 1>>] = Patterned(MaxT + 2, 500, p, 10000)
    /\ Cardinality(Windows(Raw.vals[<<1, 1>>])) > 1
    /\ rainfall_indices["Rx5day"].vals[<<1, 1>>] = <<4 * 500 + 10000>>

\* the series s with every present step multiplied by k
Scaled(s, k) == [t \in 1..Len(s) |-> IF s[t] = NaN THEN NaN ELSE s[t] * k]

\* the largest present step of s, NaN when every step is missing
LargestOf(s) ==
    LET present == {s[t] : t \in 1..Len(s)} \ {NaN}
    IN  IF present = {} THEN NaN
        ELSE CHOOSE v \in present : \A w \in present : w <= v

\* the index fields of cell c are those of the cell's series multiplied by k
ComputedInUnit(c, k) ==
    LET s == Scaled(Raw.vals[c], k)
    IN  /\ rainfall_indices["PRCPTOT"].vals[c] =
              <<SumOver(s, StepsFrom(s, 0))>>
        /\ rainfall_indices["Rx1day"].vals[c] = <<LargestOf(s)>>
        /\ rainfall_indices["heavy_rain_days"].vals[c] =
              <<Cardinality(StepsFrom(s, 10001))>>
        /\ rainfall_indices["CDD"].vals[c] = <<Cardinality(StepsBelow(s, 100))>>
        /\ rainfall_indices["CWD"].vals[c] = <<Cardinality(StepsFrom(s, 100))>>

\* C23 as claimed: within one IndexSet all indices are computed in the same
\* unit: the x86400 conversion is applied either by every index computation
\* or by none of them, whatever the unit metadata and the magnitude are.
C23_OneUnitPerIndexSet ==
    IndicesReturned =>
        \E k \in {1, 86400} : \A c \in Cells(Raw) : ComputedInUnit(c, k)

\* the steps of s that are not missing
PresentSteps(s) == {t \in 1..Len(s) : s[t] # NaN}

EntryNamed(seasonal, name) ==
    LET hits == {i \in 1..Len(seasonal) : seasonal[i].name = name}
    IN  IF hits = {} THEN <<>> ELSE seasonal[CHOOSE i \in hits : TRUE].ds

\* the seasonal data with the observational dataset replaced by `other`
WithObserved(seasonal, other) ==
    [i \in 1..Len(seasonal) |->
        IF seasonal[i].name = "imd" THEN Entry("imd", other) ELSE seasonal[i]]

\* other observational datasets a second run could have been given
OtherObserved ==
    {Dataset("rainfall", SampleField("year", NoUnits, <<v>>, w)) :
        v \in {0, 50, 500, 10000}, w \in {0, 500}}
    \cup {Dataset("tas", SampleField("time", "mm/day", <<500, 500>>, 0)), NoVariables}

\* the first data variable with a name of the rainfall list, else the first
RainfallOf(ds) ==
    LET named == {i \in 1..Len(ds.data_vars) :
                     Lower(ds.data_vars[i].name) \in
                        {"pr", "precipitation", "precip", "rain", "rainfall", "pcp"}}
    IN  IF named = {} THEN ds.data_vars[1].da
        ELSE ds.data_vars[CHOOSE i \in named : \A j \in named : i <= j].da

\* C30: when the seasonal data contains a 'cmip6' entry, the returned
\* IndexSet depends only on that entry: a run that differs only in the
\* observational ('imd') dataset produces identical index fields; the first
\* dataset of the mapping is used only when no 'cmip6' entry exists.
C30_OnlyCmip6Matters ==
    IndicesReturned =>
        IF EntryNamed(seasonal_data, "cmip6") # <<>>
        THEN /\ Raw = RainfallOf(EntryNamed(seasonal_data, "cmip6"))
             /\ \A other \in OtherObserved :
                   LET second == WithObserved(seasonal_data, other)
                   IN  /\ ~IndicesRaise(second)
                       /\ \A k \in IndexNames \cup {"raw_data"} :
                             IndexSet(second, rainfall_indices["scenario"].text,
                                      "1990-2019")[k] = rainfall_indices[k]
        ELSE Raw = RainfallOf(seasonal_data[1].ds)

\* an observational dataset of 0.5 before a 'cmip6' dataset of 5: the
\* IndexSet is that of the 'cmip6' dataset
C30_Witness ==
    /\ IndicesReturned
    /\ Len(seasonal_data) = 2
    /\ seasonal_data[1].name = "imd"
    /\ seasonal_data[2].name = "cmip6"
    /\ RainfallOf(seasonal_data[1].ds).vals[<<1, 1>>] = <<50>>
    /\ RainfallOf(seasonal_data[2].ds).vals[<<1, 1>>] = <<500>>
    /\ Raw = RainfallOf(seasonal_data[2].ds)
    /\ rainfall_indices["PRCPTOT"].vals[<<1, 1>>] = <<500>>

-----------------------------------------------------------------------------
(* DataProcessor.calculate_seasonal_totals *)

\* A dataset with a time dimension carries a field `time`: kind is
\* "datetime64" or "object" (values that are not yet datetimes), stamps the
\* date of every step as [year, month].
TimeCoord(kind, stamps) == [kind |-> kind, stamps |-> stamps]

TimedDataset(name, da, time) ==
    [data_vars |-> <<[name |-> name, da |-> da]>>, time |-> time]

\* 'time' in dataset.dims, line 132
HasTimeDim(dataset) == "time" \in DOMAIN dataset

\* lines 134-135: the converted time values are stored in the dataset that
\* was passed in
WithDatetimes(dataset) ==
    IF HasTimeDim(dataset) /\ dataset.time.kind # "datetime64"
    THEN [dataset EXCEPT !.time.kind = "datetime64"]
    ELSE dataset

\* a filter that stops at August
InSeasonJJA(month) == month \in {6, 7, 8}

\* dataset.time.dt.month.isin([6, 7, 8, 9]), line 139
InSeason(month) == month \in {6, 7, 8, 9}

\* the steps that dataset.sel keeps, lines 138-140
Selected(dataset) ==
    {t \in 1..Len(dataset.time.stamps) : InSeason(dataset.time.stamps[t].month)}

\* the members of a set of integers in ascending order
Ascending(S) ==
    [k \in 1..Cardinality(S) |->
        CHOOSE y \in S : Cardinality({z \in S : z < y}) = k - 1]

\* the groups of groupby('time.year'), line 154
Years(dataset) ==
    Ascending({dataset.time.stamps[t].year : t \in Selected(dataset)})

\* line 143
precip_vars == {"pr", "precipitation", "precip", "rain", "rainfall"}

\* line 148, on the unit strings that occur
HasFluxUnits(units) ==
    units \in {"kg m-2 s-1", "kg/m2/s", "mm/s"}

\* lines 145-148: whether the variable is multiplied by 86400
SeasonalConverts(var) ==
    /\ Lower(var.name) \in precip_vars
    /\ var.da.units # NoUnits
    /\ HasFluxUnits(var.da.units)

\* the values of series s at the steps T, in time order
Pick(s, T) == LET steps == Ascending(T) IN [k \in 1..Len(steps) |-> s[steps[k]]]

\* lines 150 and 154 for one variable: the selected steps, scaled where the
\* variable converts, summed per year skipping missing values; the sum
\* drops the attributes of the variable
SeasonalTotal(var, dataset) ==
    LET da        == var.da
        years     == Years(dataset)
        stepsOf(y) == {t \in Selected(dataset) : dataset.time.stamps[t].year = y}
        scaled(v) == IF IsNaN(v) THEN NaN
                     ELSE IF SeasonalConverts(var) THEN v * SecondsPerDay ELSE v
    IN  [name |-> var.name,
         da   |-> [da EXCEPT
                     !.dims = [i \in 1..Len(da.dims) |->
                                 IF da.dims[i] = "time" THEN "year" ELSE da.dims[i]],
                     !.units = NoUnits,
                     !.vals = [c \in Cells(da) |->
                                 [k \in 1..Len(years) |->
                                    NanSum(Pick([t \in 1..Len(da.vals[c]) |->
                                                   scaled(da.vals[c][t])],
                                                stepsOf(years[k])))]]]]

\* lines 132-163 for one dataset
SeasonalTotals(dataset) ==
    IF HasTimeDim(dataset)
    THEN [data_vars |-> [k \in 1..Len(dataset.data_vars) |->
                           SeasonalTotal(dataset.data_vars[k], dataset)],
          year |-> Years(dataset)]
    ELSE dataset

IsMember(entry) == entry.name # "target_grid"

\* the mapping calculate_seasonal_totals returns, lines 125-165
SeasonalData(regridded) ==
    LET members == SelectSeq(regridded, IsMember)
    IN  [k \in 1..Len(members) |->
           Entry(members[k].name, SeasonalTotals(members[k].ds))]

\* pd.to_datetime (line 135) raises on time values that are no dates
Unparseable(entry) ==
    /\ IsMember(entry)
    /\ HasTimeDim(entry.ds)
    /\ entry.ds.time.kind = "text"

\* the position of the first dataset on which the loop fails, 0 for none
FirstFailure(regridded) ==
    LET bad == {k \in 1..Len(regridded) : Unparseable(regridded[k])}
    IN  IF bad = {} THEN 0 ELSE CHOOSE k \in bad : \A j \in bad : k <= j

SeasonalRaises(regridded) == FirstFailure(regridded) # 0

\* the mapping that was passed in, after the call: the datasets the loop
\* reached before it ended
AfterSeasonal(regridded) ==
    [k \in 1..Len(regridded) |->
        IF IsMember(regridded[k])
           /\ (FirstFailure(regridded) = 0 \/ k < FirstFailure(regridded))
        THEN Entry(regridded[k].name, WithDatetimes(regridded[k].ds))
        ELSE regridded[k]]

\* calculate_seasonal_totals, lines 122-167
calculate_seasonal_totals ==
    /\ regrid_outcome = "returned"
    /\ seasonal_outcome = "pending"
    /\ IF SeasonalRaises(regridded_data)
       THEN /\ seasonal_outcome' = "raised"
            /\ seasonal_data' = <<>>
            /\ last_error' = Wrapped("Error calculating seasonal totals",
                                     <<"Unknown datetime string format">>)
       ELSE /\ seasonal_outcome' = "returned"
            /\ seasonal_data' = SeasonalData(regridded_data)
            /\ UNCHANGED last_error
    /\ regridded_data' = AfterSeasonal(regridded_data)
    /\ UNCHANGED app_vars
    /\ UNCHANGED <<imd_data, cmip6_data, target_resolution, regrid_outcome,
                   indices_outcome, rainfall_indices, ensemble_results,
                   ensemble_outcome, regional_stats, regional_outcome, load_vars>>

-----------------------------------------------------------------------------
(* Datasets handed to calculate_seasonal_totals *)

DaysPerMonthChoices == {1, 4}

\* `days` steps in every month of `years` consecutive years
Calendar(years, days) ==
    [t \in 1..(years * 12 * days) |->
        [year  |-> 1 + (t - 1) \div (12 * days),
         month |-> 1 + (((t - 1) \div days) % 12)]]

\* a daily field over the sample grid: `inside` from June to September and
\* `outside` in the other months, raised by `step` per year, and doubled at
\* the second latitude
DailyField(units, calendar, inside, outside, step) ==
    DataArray(<<"time", "lat", "lon">>, units, SampleLat, SampleLon,
              [c \in GridCells(SampleLat, SampleLon) |->
                 [t \in 1..Len(calendar) |->
                    LET base == IF calendar[t].month \in 6..9 THEN inside ELSE outside
                    IN  IF IsNaN(base) THEN NaN
                        ELSE c[1] * (base + step * (calendar[t].year - 1))]])

\* daily values: in hundredths of mm/day, or flux magnitudes
DailyDatasets ==
    {TimedDataset(name,
                  DailyField(units, Calendar(years, days), inside, outside, step),
                  TimeCoord(kind, Calendar(years, days))) :
        name \in {"pr", "PR", "rainfall", "tp"},
        units \in {NoUnits, "mm/day", "kg m-2 s-1", "kg/m2/s", "mm/s"},
        kind \in {"datetime64", "object"},
        years \in 1..MaxYears, days \in DaysPerMonthChoices,
        inside \in {NaN, 3, 100}, outside \in {NaN, 0, 100, 700},
        step \in {0, 1}}

\* the observations: a daily year, or a field without a time dimension
ObservedDatasets ==
    {TimedDataset("rainfall",
                  DailyField("mm/day", Calendar(1, 1), 500, 0, 0),
                  TimeCoord("object", Calendar(1, 1))),
     TimedDataset("rainfall",
                  DailyField("mm/day", Calendar(1, 1), 500, 0, 0),
                  TimeCoord("text", Calendar(1, 1))),
     Dataset("rainfall", SampleField("none", "mm/day", <<500>>, 0))}

InitSeasonal ==
    /\ imd_data = <<>>
    /\ cmip6_data = <<>>
    /\ target_resolution = 1
    /\ \E imd \in ObservedDatasets, cmip6 \in DailyDatasets :
          regridded_data = << Entry("imd", imd), Entry("cmip6", cmip6),
                              [name |-> "target_grid", lat |-> SampleLat,
                               lon |-> SampleLon] >>
    /\ regrid_outcome = "returned"
    /\ seasonal_data = <<>>
    /\ seasonal_outcome = "pending"
    /\ indices_outcome = "returned"
    /\ rainfall_indices = <<>>
    /\ ensemble_results = <<>>
    /\ ensemble_outcome = "returned"
    /\ regional_stats = <<>>
    /\ regional_outcome = "returned"
    /\ last_error = NoError
    /\ session_state = NoSession
    /\ page_output = NothingShown
    /\ file_path = <<>>
    /\ loaded_data = <<>>
    /\ load_outcome = "returned"

NextSeasonal == calculate_seasonal_totals

SpecSeasonal == InitSeasonal /\ [][NextSeasonal]_vars

-----------------------------------------------------------------------------
(* Claims about calculate_seasonal_totals, checked under SpecSeasonal *)

SeasonalReturned == seasonal_outcome = "returned"

\* the daily value a step contributes: missing values count for nothing, and
\* a precipitation variable declared as a flux counts in mm/day
Contribution(var, v) ==
    IF IsNaN(v) THEN 0
    ELSE IF SeasonalConverts(var) THEN v * SecondsPerDay ELSE v

\* the June-September steps of year y
SeasonSteps(stamps, y) ==
    {t \in 1..Len(stamps) : stamps[t].year = y /\ stamps[t].month \in 6..9}

\* C5: for a daily input covering all twelve months of each of N years,
\* calculate_seasonal_totals returns one entry per dataset with exactly N
\* year entries, and for every variable, year and cell the value is the sum
\* of that year's June-September daily values only; days of other months and
\* of other years never contribute.
C5_SeasonalTotals ==
    SeasonalReturned =>
        /\ Len(seasonal_data) = 2
        /\ \A k \in 1..Len(seasonal_data) :
             LET input  == regridded_data[k].ds
                 output == seasonal_data[k].ds
             IN  /\ seasonal_data[k].name = regridded_data[k].name
                 /\ HasTimeDim(input) =>
                      LET stamps == input.time.stamps
                          years  == {stamps[t].year : t \in 1..Len(stamps)}
                      IN  /\ Len(output.year) = Cardinality(years)
                          /\ \A y \in years : output.year[y] = y
                          /\ \A v \in 1..Len(input.data_vars) :
                               LET var == input.data_vars[v]
                                   out == output.data_vars[v].da
                               IN  /\ Cells(out) = Cells(var.da)
                                   /\ \A c \in Cells(var.da), y \in years :
                                        /\ Len(out.vals[c]) = Cardinality(years)
                                        /\ out.vals[c][y] =
                                             SumOver([t \in 1..Len(stamps) |->
                                                        Contribution(var, var.da.vals[c][t])],
                                                     SeasonSteps(stamps, y))

\* two years of four days per month, every day 1.0 mm: 16 mm in each year
C5_Witness ==
    /\ SeasonalReturned
    /\ LET input  == regridded_data[2].ds
           output == seasonal_data[2].ds
       IN  /\ Len(input.time.stamps) = 2 * 12 * 4
           /\ input.data_vars[1].da.units = "mm/day"
           /\ ConstantSeries(input.data_vars[1].da.vals[<<1, 1>>], OneMillimetre)
           /\ output.data_vars[1].da.vals[<<1, 1>>]
                = <<16 * OneMillimetre, 16 * OneMillimetre>>
           /\ output.data_vars[1].da.dims = <<"year", "lat", "lon">>

\* C19 as claimed: calculate_seasonal_totals leaves its input unchanged:
\* every dataset inside regridded_data, its time coordinate included, is
\* after the call what it was before, also when the time values are not yet
\* datetimes.
C19_InputUnchanged == [][regridded_data' = regridded_data]_vars

\* the daily value of a step when the declared unit alone decides the scaling
ContributionByUnit(var, v) ==
    IF IsNaN(v) THEN 0
    ELSE IF var.da.units \in {"kg m-2 s-1", "kg/m2/s", "mm/s"}
         THEN v * SecondsPerDay ELSE v

\* C11 as claimed: every variable declared in a flux unit is multiplied by
\* 86400 before the per-year sum, whatever its name, and every other
\* variable is summed unscaled.
C11_FluxScaledWhateverName ==
    SeasonalReturned =>
        \A k \in 1..Len(seasonal_data) :
            LET input  == regridded_data[k].ds
                output == seasonal_data[k].ds
            IN  HasTimeDim(input) =>
                  \A v \in 1..Len(input.data_vars) :
                     LET var    == input.data_vars[v]
                         stamps == input.time.stamps
                     IN  \A c \in Cells(var.da), y \in 1..Len(output.year) :
                            output.data_vars[v].da.vals[c][y] =
                               SumOver([t \in 1..Len(stamps) |->
                                          ContributionByUnit(var, var.da.vals[c][t])],
                                       SeasonSteps(stamps, output.year[y]))

-----------------------------------------------------------------------------
(* calculate_seasonal_totals followed by calculate_rainfall_indices on the
   seasonal data it returned *)

\* fields declared as a flux that are dry from June to September
DryDatasets ==
    {TimedDataset(name,
                  DailyField(units, Calendar(years, days), 0, outside, 0),
                  TimeCoord("datetime64", Calendar(years, days))) :
        name \in {"pr", "tp"}, units \in {"mm/day", "kg m-2 s-1", "mm/s"},
        years \in 1..MaxYears, days \in DaysPerMonthChoices,
        outside \in {0, 100}}

PipelineDatasets ==
    {ds \in DailyDatasets : ds.time.kind = "datetime64"} \cup DryDatasets

InitPipeline ==
    /\ imd_data = <<>>
    /\ cmip6_data = <<>>
    /\ target_resolution = 1
    /\ \E imd \in ObservedDatasets, cmip6 \in PipelineDatasets :
          regridded_data = << Entry("imd", imd), Entry("cmip6", cmip6),
                              [name |-> "target_grid", lat |-> SampleLat,
                               lon |-> SampleLon] >>
    /\ regrid_outcome = "returned"
    /\ seasonal_data = <<>>
    /\ seasonal_outcome = "pending"
    /\ indices_outcome = "pending"
    /\ rainfall_indices = <<>>
    /\ ensemble_results = <<>>
    /\ ensemble_outcome = "returned"
    /\ regional_stats = <<>>
    /\ regional_outcome = "returned"
    /\ last_error = NoError
    /\ session_state = NoSession
    /\ page_output = NothingShown
    /\ file_path = <<>>
    /\ loaded_data = <<>>
    /\ load_outcome = "returned"

NextPipeline ==
    \/ calculate_seasonal_totals
    \/ (seasonal_outcome = "returned" /\ calculate_rainfall_indices)

SpecPipeline == InitPipeline /\ [][NextPipeline]_vars

\* both stages of the pipeline have returned
PipelineReturned == seasonal_outcome = "returned" /\ indices_outcome = "returned"

\* the daily variable the analysed seasonal series was summed from
DailyVariable == EntryNamed(regridded_data, "cmip6").data_vars[1]

\* C24 as claimed: along the pipeline calculate_seasonal_totals followed by
\* calculate_rainfall_indices, every rainfall value is multiplied by 86400
\* at most once: a field the aggregator has converted to mm/day never meets
\* the test `max() < 1` by which an index computation multiplies it by 86400
\* again, whatever its magnitude, and every index is that of the seasonal
\* series as the aggregator returned it.
C24_ConvertedAtMostOnce ==
    (PipelineReturned /\ SeasonalConverts(DailyVariable)) =>
        /\ ~(FieldMax(Raw) # NaN /\ FieldMax(Raw) < 100)
        /\ \A c \in Cells(Raw) : ComputedInUnit(c, 1)

-----------------------------------------------------------------------------
(* ClimateAnalyzer.ensemble_analysis *)

\* a skip list that lets the raw series through
skip_fields_without_raw_data == {"scenario", "baseline_period", "spatial_info"}

\* line 220
skip_fields == {"raw_data", "scenario", "baseline_period", "spatial_info"}

percentiles == <<10, 25, 50, 75, 90>>

\* np.percentile(data_values, p), linear interpolation between order statistics
Percentile(data_values, p) ==
    LET x    == SortValues(data_values)
        n    == Len(x)
        pos  == (n - 1) * p            \* 100 * the fractional index
        lo   == pos \div 100
        frac == pos - 100 * lo
    IN  IF lo + 1 >= n
        THEN RatInt(x[n])
        ELSE Rat(100 * x[lo + 1] + frac * (x[lo + 2] - x[lo + 1]), 100)

\* np.mean(data_values)
Mean(data_values) == Rat(SumSeq(data_values), Len(data_values))

\* np.std(data_values) (population), kept as its square
Variance(data_values) ==
    LET n == Len(data_values)
        s == SumSeq(data_values)
        q == SumSeq([i \in 1..n |-> data_values[i] * data_values[i]])
    IN  Rat(n * q - s * s, n * n)

\* an entry of the IndexSet that has a .values array
HasValues(index_data) == index_data.kind = "array"

\* the per-index entry, lines 234-253
IndexStats(data_values) ==
    [ mean           |-> Mean(data_values),
      std_squared    |-> Variance(data_values),
      percentiles    |-> [p \in {percentiles[i] : i \in 1..Len(percentiles)}
                            |-> Percentile(data_values, p)],
      n_valid_points |-> Len(data_values) ]

\* the names that get a per-index entry, lines 223-233
AnalysedNames(indices) ==
    { k \in DOMAIN indices :
        /\ k \notin skip_fields
        /\ HasValues(indices[k])
        /\ Len(DropNaN(Flatten(indices[k]))) > 0 }

PerIndexResults(indices) ==
    [k \in AnalysedNames(indices) |-> IndexStats(DropNaN(Flatten(indices[k])))]

baseline_reference == 1000

\* line 268
UncertaintyRange(prcptot_data) ==
    RatSub(prcptot_data.percentiles[90], prcptot_data.percentiles[10])

\* line 269; the caller has checked that the mean is not zero
RelativeUncertainty(prcptot_data) ==
    RatMul(RatDiv(UncertaintyRange(prcptot_data), prcptot_data.mean), RatInt(100))

\* the classification with its boundaries closed on the right
ConfidenceLevelRightClosed(relative_uncertainty) ==
    IF RatLe(relative_uncertainty, RatInt(20)) THEN 90
    ELSE IF RatLe(relative_uncertainty, RatInt(40)) THEN 75
    ELSE 60

\* lines 272-277
ConfidenceLevel(relative_uncertainty) ==
    IF RatLt(relative_uncertainty, RatInt(20)) THEN 90
    ELSE IF RatLt(relative_uncertainty, RatInt(40)) THEN 75
    ELSE 60

\* line 265
PercentChange(current_mean) ==
    RatMul(RatDiv(RatSub(current_mean, RatInt(baseline_reference)),
                  RatInt(baseline_reference)), RatInt(100))

\* a summary whose bounds are the percent changes of the raw percentiles
SummaryOfRawPercentiles(prcptot_data) ==
    [ mean_change      |-> PercentChange(prcptot_data.mean),
      absolute_mean    |-> prcptot_data.mean,
      baseline_value   |-> baseline_reference,
      p10 |-> PercentChange(prcptot_data.percentiles[10]),
      p90 |-> PercentChange(prcptot_data.percentiles[90]),
      confidence_level |-> ConfidenceLevel(RelativeUncertainty(prcptot_data)),
      uncertainty_range |-> UncertaintyRange(prcptot_data),
      affected_grid_points |-> prcptot_data.n_valid_points ]

\* lines 279-290
Summary(prcptot_data) ==
    LET percent_change == PercentChange(prcptot_data.mean)
        base == RatInt(baseline_reference)
    IN  [ mean_change      |-> percent_change,
          absolute_mean    |-> prcptot_data.mean,
          baseline_value   |-> baseline_reference,
          p10 |-> RatSub(percent_change,
                    RatMul(RatDiv(RatSub(base, prcptot_data.percentiles[10]), base),
                           RatInt(100))),
          p90 |-> RatAdd(percent_change,
                    RatMul(RatDiv(RatSub(prcptot_data.percentiles[90], base), base),
                           RatInt(100))),
          confidence_level |-> ConfidenceLevel(RelativeUncertainty(prcptot_data)),
          uncertainty_range |-> UncertaintyRange(prcptot_data),
          affected_grid_points |-> prcptot_data.n_valid_points ]

\* an analysis that also raises when PRCPTOT has no per-index entry
SummaryRaisesWithoutPrcptot(per_index) ==
    \/ "PRCPTOT" \notin DOMAIN per_index
    \/ per_index["PRCPTOT"].mean.n = 0

\* line 269 divides two Python floats: a zero mean raises ZeroDivisionError
SummaryRaises(per_index) ==
    /\ "PRCPTOT" \in DOMAIN per_index
    /\ per_index["PRCPTOT"].mean.n = 0

\* an analysis that returns nothing at all without a PRCPTOT entry
EnsembleResultsOrNothing(indices) ==
    LET per_index == PerIndexResults(indices)
    IN  IF "PRCPTOT" \in DOMAIN per_index
        THEN [k \in DOMAIN per_index \cup {"summary"} |->
                IF k = "summary" THEN Summary(per_index["PRCPTOT"])
                ELSE per_index[k]]
        ELSE <<>>

\* the mapping ensemble_analysis returns, lines 217-292
EnsembleResults(indices) ==
    LET per_index == PerIndexResults(indices)
    IN  IF "PRCPTOT" \in DOMAIN per_index
        THEN [k \in DOMAIN per_index \cup {"summary"} |->
                IF k = "summary" THEN Summary(per_index["PRCPTOT"])
                ELSE per_index[k]]
        ELSE per_index

ensemble_analysis ==
    /\ ensemble_outcome = "pending"
    /\ IF SummaryRaises(PerIndexResults(rainfall_indices))
       THEN /\ ensemble_outcome' = "raised"
            /\ ensemble_results' = <<>>
            /\ last_error' = Wrapped("Error in ensemble analysis",
                                     <<"float division by zero">>)
       ELSE /\ ensemble_outcome' = "returned"
            /\ ensemble_results' = EnsembleResults(rainfall_indices)
            /\ UNCHANGED last_error
    /\ UNCHANGED app_vars
    /\ UNCHANGED <<regrid_vars, seasonal_data, seasonal_outcome, indices_outcome,
                   rainfall_indices, regional_stats, regional_outcome, load_vars>>

-----------------------------------------------------------------------------
(* Index sets handed to ensemble_analysis *)

\* sample values of an index field, in millimetres
EnsValues == {NaN, 0, 3, 5, 7, 9, 801, 1199, 2001, 1201, 1999, 1401, 1799}

RECURSIVE SeqsOf(_, _)
SeqsOf(S, n) ==
    IF n = 0 THEN {<<>>}
    ELSE {<<x>> \o s : x \in S, s \in SeqsOf(S, n - 1)}

\* a spatial field of EnsCells latitudes by one longitude
Array(values) ==
    DataArray(<<"lat", "lon">>, NoUnits, [i \in 1..Len(values) |-> 5 + i], <<68>>,
              [c \in (1..Len(values)) \X {1} |-> <<values[c[1]]>>])

EnsFields == {Array(s) : s \in SeqsOf(EnsValues, EnsCells)}

OtherFields == {Array([i \in 1..EnsCells |-> NaN]),
                Array([i \in 1..EnsCells |-> IF i = 1 THEN 5 ELSE NaN]),
                Array([i \in 1..EnsCells |-> 4 * i])}

\* an IndexSet: the metadata entries, and PRCPTOT and SDII present or not
EnsIndexSets ==
    LET meta == [k \in {"scenario", "baseline_period"} |-> Label("SSP5-8.5")]
        With(f, k, v) == [x \in DOMAIN f \cup {k} |-> IF x = k THEN v ELSE f[x]]
        raw   == {With(meta, "raw_data", a) : a \in OtherFields}
        plusP == raw \cup {With(m, "PRCPTOT", a) : m \in raw, a \in EnsFields}
    IN  plusP \cup {With(m, "SDII", a) : m \in plusP, a \in OtherFields}

InitEnsemble ==
    /\ imd_data = <<>>
    /\ cmip6_data = <<>>
    /\ target_resolution = 1
    /\ regridded_data = <<>>
    /\ regrid_outcome = "returned"
    /\ seasonal_data = <<>>
    /\ seasonal_outcome = "returned"
    /\ indices_outcome = "returned"
    /\ rainfall_indices \in EnsIndexSets
    /\ ensemble_results = <<>>
    /\ ensemble_outcome = "pending"
    /\ regional_stats = <<>>
    /\ regional_outcome = "returned"
    /\ last_error = NoError
    /\ session_state = NoSession
    /\ page_output = NothingShown
    /\ file_path = <<>>
    /\ loaded_data = <<>>
    /\ load_outcome = "returned"

NextEnsemble == ensemble_analysis

SpecEnsemble == InitEnsemble /\ [][NextEnsemble]_vars

-----------------------------------------------------------------------------
(* ClimateAnalyzer.calculate_regional_statistics; coordinates in degrees *)

\* lines 302-309
regions ==
    [r \in {"Northern", "Western", "Central", "Eastern", "Southern", "Northeastern"} |->
       CASE r = "Northern" ->
              [lat_min |-> 28, lat_max |-> 37, lon_min |-> 68, lon_max |-> 88]
         [] r = "Western" ->
              [lat_min |-> 15, lat_max |-> 28, lon_min |-> 68, lon_max |-> 78]
         [] r = "Central" ->
              [lat_min |-> 15, lat_max |-> 28, lon_min |-> 78, lon_max |-> 88]
         [] r = "Eastern" ->
              [lat_min |-> 15, lat_max |-> 28, lon_min |-> 88, lon_max |-> 97]
         [] r = "Southern" ->
              [lat_min |-> 6, lat_max |-> 15, lon_min |-> 68, lon_max |-> 88]
         [] r = "Northeastern" ->
              [lat_min |-> 22, lat_max |-> 30, lon_min |-> 88, lon_max |-> 97]]

\* hasattr(index_data, 'lat') and hasattr(index_data, 'lon'), line 315
HasLatLonAttr(index_data) == index_data.kind = "array" /\ HasLatLon(index_data)

\* a selection that leaves out the cells on the upper edges of the box
RegionCellsHalfOpen(index_data, bounds) ==
    {c \in Cells(index_data) :
        /\ bounds.lat_min <= index_data.lat[c[1]]
        /\ index_data.lat[c[1]] < bounds.lat_max
        /\ bounds.lon_min <= index_data.lon[c[2]]
        /\ index_data.lon[c[2]] < bounds.lon_max}

\* index_data.sel(lat=slice(lat_min, lat_max), lon=slice(lon_min, lon_max)),
\* lines 317-320, on ascending coordinates: both ends of a slice of labels
\* are kept
RegionCells(index_data, bounds) ==
    {c \in Cells(index_data) :
        /\ bounds.lat_min <= index_data.lat[c[1]]
        /\ index_data.lat[c[1]] <= bounds.lat_max
        /\ bounds.lon_min <= index_data.lon[c[2]]
        /\ index_data.lon[c[2]] <= bounds.lon_max}

\* a value of the field as a rational; the SDII field holds rationals
AsRat(index_name, v) ==
    IF index_name = "SDII" THEN v
    ELSE IF IsNaN(v) THEN NaNRat ELSE RatInt(v)

\* the non-missing values of the cells, at every step, as rationals
ValuesOf(index_name, index_data, cells) ==
    LET all == {<<c, t>> : c \in cells, t \in 1..Steps(index_data)}
        ok  == {x \in all :
                  AsRat(index_name, index_data.vals[x[1]][x[2]]) # NaNRat}
        RECURSIVE Listed(_)
        Listed(X) ==
            IF X = {} THEN <<>>
            ELSE LET x == CHOOSE y \in X : TRUE
                 IN  <<AsRat(index_name, index_data.vals[x[1]][x[2]])>>
                        \o Listed(X \ {x})
    IN  Listed(ok)

Lcm(a, b) == (a * b) \div Gcd(a, b)

\* a common denominator of a sequence of rationals
RECURSIVE CommonDenominator(_)
CommonDenominator(xs) ==
    IF xs = <<>> THEN 1 ELSE Lcm(Head(xs).d, CommonDenominator(Tail(xs)))

RECURSIVE MinOf(_)
MinOf(s) == IF Len(s) = 1 THEN s[1]
            ELSE LET m == MinOf(Tail(s)) IN IF Head(s) <= m THEN Head(s) ELSE m

RECURSIVE MaxOf(_)
MaxOf(s) == IF Len(s) = 1 THEN s[1] ELSE Max(Head(s), MaxOf(Tail(s)))

\* lines 323-328: mean(), std(), min() and max() skip missing values and
\* give NaN when every value is missing; std is kept as its square
RegionStats(xs) ==
    IF xs = <<>>
    THEN [mean |-> NaNRat, std_squared |-> NaNRat, min |-> NaNRat, max |-> NaNRat]
    ELSE LET D == CommonDenominator(xs)
             m == [i \in 1..Len(xs) |-> xs[i].n * (D \div xs[i].d)]
         IN  [mean        |-> Rat(SumSeq(m), Len(m) * D),
              std_squared |-> RatDiv(Variance(m), RatInt(D * D)),
              min         |-> Rat(MinOf(m), D),
              max         |-> Rat(MaxOf(m), D)]

\* the entries that have lat and lon
RegionalNames(indices_data) ==
    {k \in DOMAIN indices_data : HasLatLonAttr(indices_data[k])}

\* min() of a selection without any cell raises ValueError (line 326)
RegionalRaises(indices_data) ==
    \E r \in DOMAIN regions, k \in RegionalNames(indices_data) :
        RegionCells(indices_data[k], regions[r]) = {}

\* regional_stats, lines 311-330
RegionalStatistics(indices_data) ==
    [r \in DOMAIN regions |->
        [k \in RegionalNames(indices_data) |->
            RegionStats(ValuesOf(k, indices_data[k],
                                 RegionCells(indices_data[k], regions[r])))]]

\* calculate_regional_statistics, lines 296-334
calculate_regional_statistics ==
    /\ indices_outcome = "returned"
    /\ regional_outcome = "pending"
    /\ IF RegionalRaises(rainfall_indices)
       THEN /\ regional_outcome' = "raised"
            /\ regional_stats' = <<>>
            /\ last_error' = Wrapped("Error calculating regional statistics",
                   <<"zero-size array to reduction operation fmin which has no identity">>)
       ELSE /\ regional_outcome' = "returned"
            /\ regional_stats' = RegionalStatistics(rainfall_indices)
            /\ UNCHANGED last_error
    /\ UNCHANGED app_vars
    /\ UNCHANGED <<regrid_vars, seasonal_data, seasonal_outcome, indices_outcome,
                   rainfall_indices, ensemble_results, ensemble_outcome, load_vars>>

-----------------------------------------------------------------------------
(* Seasonal series handed to the index engine and then to
   calculate_regional_statistics *)

\* years of a seasonal series on a regional grid
RegionalYears == 1

\* grids in degrees: one with a row and a column on every edge of a region
\* box, one with every cell strictly inside or outside the boxes, and the
\* two-cell sample grid
RegionalGrids ==
    { [lat |-> <<6, 15, 22, 28, 30, 37>>, lon |-> <<68, 78, 88, 97>>],
      [lat |-> <<10, 20, 25, 29, 33>>, lon |-> <<70, 80, 90>>],
      [lat |-> SampleLat, lon |-> SampleLon] }

\* seasonal totals in hundredths of a millimetre that differ from cell to
\* cell, with `special` at the cell `at`
RegionalField(grid, at, special) ==
    DataArray(<<"year", "lat", "lon">>, NoUnits, grid.lat, grid.lon,
              [c \in GridCells(grid.lat, grid.lon) |->
                 [y \in 1..RegionalYears |->
                    IF c = at THEN special
                    ELSE OneMillimetre + 5 * c[1] + c[2] + (y - 1)]])

RegionalInputs ==
    {<<Entry("cmip6", Dataset("pr", RegionalField(g, at, v)))>> :
        g \in RegionalGrids, at \in (1..6) \X (1..4), v \in {NaN, 0, 150}}

InitRegional ==
    /\ imd_data = <<>>
    /\ cmip6_data = <<>>
    /\ target_resolution = 1
    /\ regridded_data = <<>>
    /\ regrid_outcome = "returned"
    /\ seasonal_data \in RegionalInputs
    /\ seasonal_outcome = "returned"
    /\ indices_outcome = "pending"
    /\ rainfall_indices = <<>>
    /\ ensemble_results = <<>>
    /\ ensemble_outcome = "returned"
    /\ regional_stats = <<>>
    /\ regional_outcome = "pending"
    /\ last_error = NoError
    /\ session_state = NoSession
    /\ page_output = NothingShown
    /\ file_path = <<>>
    /\ loaded_data = <<>>
    /\ load_outcome = "returned"

NextRegional ==
    \/ calculate_rainfall_indices
    \/ calculate_regional_statistics

SpecRegional == InitRegional /\ [][NextRegional]_vars

-----------------------------------------------------------------------------
(* Claims about calculate_regional_statistics, checked under SpecRegional *)

RegionalReturned == regional_outcome = "returned"

\* the cells of a field on or inside the box, edges included
OnOrInside(index_data, lat_min, lat_max, lon_min, lon_max) ==
    {c \in Cells(index_data) :
        /\ index_data.lat[c[1]] \in lat_min..lat_max
        /\ index_data.lon[c[2]] \in lon_min..lon_max}

StatsOver(k, cells) == RegionStats(ValuesOf(k, rainfall_indices[k], cells))

\* C15: a grid cell exactly on an edge shared by two adjacent region boxes
\* (lat = 28 between Northern and Western/Central, lon = 78 between Western
\* and Central, lat = 15 between Southern and Western/Central) is included in
\* the statistics of both regions: both bounds of every box are inclusive.
C15_SharedEdgeInBoth ==
    RegionalReturned =>
        \A k \in {"PRCPTOT", "Rx1day", "CDD", "SDII"} :
            LET f == rainfall_indices[k]
            IN  /\ regional_stats["Northern"][k] = StatsOver(k, OnOrInside(f, 28, 37, 68, 88))
                /\ regional_stats["Western"][k]  = StatsOver(k, OnOrInside(f, 15, 28, 68, 78))
                /\ regional_stats["Central"][k]  = StatsOver(k, OnOrInside(f, 15, 28, 78, 88))
                /\ regional_stats["Southern"][k] = StatsOver(k, OnOrInside(f, 6, 15, 68, 88))
                /\ regional_stats["Eastern"][k]  = StatsOver(k, OnOrInside(f, 15, 28, 88, 97))
                /\ regional_stats["Northeastern"][k]
                                                 = StatsOver(k, OnOrInside(f, 22, 30, 88, 97))

\* the only dry cell lies at lat 28, lon 78, on the corner shared by
\* Northern, Western and Central: each of the three reports it as its minimum
C15_Witness ==
    /\ RegionalReturned
    /\ rainfall_indices["PRCPTOT"].lat[4] = 28
    /\ rainfall_indices["PRCPTOT"].lon[2] = 78
    /\ rainfall_indices["PRCPTOT"].vals[<<4, 2>>] = <<0>>
    /\ regional_stats["Northern"]["PRCPTOT"].min = RatInt(0)
    /\ regional_stats["Western"]["PRCPTOT"].min = RatInt(0)
    /\ regional_stats["Central"]["PRCPTOT"].min = RatInt(0)
    /\ regional_stats["Southern"]["PRCPTOT"].min # RatInt(0)

\* C16 as claimed: the result has exactly the six region names, and each
\* region holds entries {mean, std, min, max} only for index fields; the
\* metadata entries raw_data, scenario, baseline_period and spatial_info are
\* never keys of a region.
C16_OnlyIndexFields ==
    RegionalReturned =>
        /\ DOMAIN regional_stats = {"Northern", "Western", "Central", "Eastern",
                                    "Southern", "Northeastern"}
        /\ \A r \in DOMAIN regional_stats :
              /\ DOMAIN regional_stats[r]
                    \subseteq {"PRCPTOT", "Rx1day", "Rx5day", "heavy_rain_days",
                               "CDD", "CWD", "SDII"}
              /\ \A k \in DOMAIN regional_stats[r] :
                    DOMAIN regional_stats[r][k] = {"mean", "std_squared", "min", "max"}

\* C17 as claimed: every grid cell with latitude in [6, 37] and longitude in
\* [68, 97] falls inside at least one of the six region boxes.
C17_BoxesCoverArea ==
    RegionalReturned =>
        LET f == rainfall_indices["PRCPTOT"]
        IN  \A c \in OnOrInside(f, 6, 37, 68, 97) :
               \E r \in DOMAIN regions : c \in RegionCells(f, regions[r])

-----------------------------------------------------------------------------
(* Claims about ensemble_analysis, checked under SpecEnsemble *)

HasSummary == ensemble_outcome = "returned" /\ "summary" \in DOMAIN ensemble_results

\* (PRCPTOT.p90 - PRCPTOT.p10) / PRCPTOT.mean * 100 of the returned entry
ReturnedRelativeUncertainty ==
    LET p == ensemble_results["PRCPTOT"]
    IN  Rat(100 * (p.percentiles[90].n * p.percentiles[10].d
                   - p.percentiles[10].n * p.percentiles[90].d) * p.mean.d,
            p.percentiles[90].d * p.percentiles[10].d * p.mean.n)

\* C1: the confidence level is a step function of relative_uncertainty:
\* below 20 it is 90, from 20 up to but not including 40 it is 75, from 40
\* on it is 60; 19.9, 20.0, 39.9, 40.0, 40.1 give 90, 75, 75, 60, 60; and
\* no other level is produced.
C1_ConfidenceStepFunction ==
    HasSummary =>
        LET ru == ReturnedRelativeUncertainty
            c  == ensemble_results["summary"].confidence_level
        IN  /\ c \in {60, 75, 90}
            /\ ru.n < 20 * ru.d => c = 90
            /\ (20 * ru.d <= ru.n /\ ru.n < 40 * ru.d) => c = 75
            /\ 40 * ru.d <= ru.n => c = 60
            /\ ru = [n |-> 199, d |-> 10] => c = 90
            /\ ru = [n |-> 20, d |-> 1] => c = 75
            /\ ru = [n |-> 399, d |-> 10] => c = 75
            /\ ru = [n |-> 40, d |-> 1] => c = 60
            /\ ru = [n |-> 401, d |-> 10] => c = 60

\* a summary whose relative uncertainty is exactly 20 and whose level is 75
C1_Witness ==
    /\ HasSummary
    /\ ReturnedRelativeUncertainty = [n |-> 20, d |-> 1]
    /\ ensemble_results["summary"].confidence_level = 75

\* PRCPTOT is absent from the IndexSet or has no valid value
PrcptotUnusable ==
    \/ "PRCPTOT" \notin DOMAIN rainfall_indices
    \/ DropNaN(Flatten(rainfall_indices["PRCPTOT"])) = <<>>

ValidSamples(name) == DropNaN(Flatten(rainfall_indices[name]))

\* the index fields of the IndexSet: every key but the metadata
IndexFieldNames ==
    DOMAIN rainfall_indices \ {"raw_data", "scenario", "baseline_period", "spatial_info"}

FivePercentiles == {10, 25, 50, 75, 90}

\* C12: when no summary can be produced because PRCPTOT is absent or entirely
\* missing, the per-index results (mean, std, percentiles, n_valid_points) of
\* every other index with at least one valid sample are still returned.
C12_OtherIndicesStillReturned ==
    (PrcptotUnusable /\ ensemble_outcome # "pending") =>
        /\ ensemble_outcome = "returned"
        /\ \A k \in IndexFieldNames \ {"PRCPTOT"} :
              ValidSamples(k) # <<>> =>
                 /\ k \in DOMAIN ensemble_results
                 /\ {"mean", "std_squared", "percentiles", "n_valid_points"}
                       \subseteq DOMAIN ensemble_results[k]
                 /\ ensemble_results[k].n_valid_points = Len(ValidSamples(k))
                 /\ ensemble_results[k].mean
                       = Rat(SumSeq(ValidSamples(k)), Len(ValidSamples(k)))
                 /\ DOMAIN ensemble_results[k].percentiles = FivePercentiles

\* an IndexSet without PRCPTOT whose SDII has a valid sample: SDII is analysed
C12_Witness ==
    /\ "PRCPTOT" \notin DOMAIN rainfall_indices
    /\ "SDII" \in DOMAIN rainfall_indices
    /\ ensemble_outcome = "returned"
    /\ "SDII" \in DOMAIN ensemble_results
    /\ ensemble_results["SDII"].n_valid_points >= 1

\* C13: the result has a per-index entry exactly for the index fields (all
\* keys except raw_data, scenario, baseline_period, spatial_info) with at
\* least one non-missing value; each entry has the five percentiles p10, p25,
\* p50, p75, p90 and n_valid_points equal to the number of non-missing
\* samples; an index without a valid sample has no entry.
C13_PerIndexEntries ==
    ensemble_outcome = "returned" =>
        /\ DOMAIN ensemble_results \ {"summary"}
              = {k \in IndexFieldNames : ValidSamples(k) # <<>>}
        /\ \A k \in DOMAIN ensemble_results \ {"summary"} :
              /\ DOMAIN ensemble_results[k].percentiles = FivePercentiles
              /\ ensemble_results[k].n_valid_points
                    = Cardinality({i \in 1..Len(Flatten(rainfall_indices[k])) :
                                     ~IsNaN(Flatten(rainfall_indices[k])[i])})

\* PRCPTOT with one valid sample out of two is analysed, an all-missing SDII
\* is omitted, and the valid raw series gets no entry
C13_Witness ==
    /\ ensemble_outcome = "returned"
    /\ "PRCPTOT" \in DOMAIN ensemble_results
    /\ ensemble_results["PRCPTOT"].n_valid_points = 1
    /\ Len(Flatten(rainfall_indices["PRCPTOT"])) = 2
    /\ "SDII" \in DOMAIN rainfall_indices
    /\ "SDII" \notin DOMAIN ensemble_results
    /\ ValidSamples("raw_data") # <<>>
    /\ "raw_data" \notin DOMAIN ensemble_results

\* (x - 1000) / 1000 * 100 of a rational x
PercentOfBaseline(x) == Rat((x.n - 1000 * x.d) * 100, 1000 * x.d)

\* C14: in the summary, mean_change = (PRCPTOT.mean - 1000) / 1000 * 100,
\* p10 = mean_change - (1000 - PRCPTOT.p10) / 1000 * 100 and
\* p90 = mean_change + (PRCPTOT.p90 - 1000) / 1000 * 100; hence
\* p90 - p10 = uncertainty_range / 1000 * 100, and a bound is the percent
\* change of the raw percentile only when PRCPTOT.mean = 1000.
C14_SummaryBounds ==
    HasSummary =>
        LET s   == ensemble_results["summary"]
            P   == ensemble_results["PRCPTOT"]
            p10 == P.percentiles[10]
            p90 == P.percentiles[90]
            mc  == PercentOfBaseline(P.mean)
        IN  /\ s.mean_change = mc
            /\ s.p10 = RatSub(mc, Rat((1000 * p10.d - p10.n) * 100, 1000 * p10.d))
            /\ s.p90 = RatAdd(mc, Rat((p90.n - 1000 * p90.d) * 100, 1000 * p90.d))
            /\ s.uncertainty_range = RatSub(p90, p10)
            /\ RatSub(s.p90, s.p10)
                  = Rat(s.uncertainty_range.n * 100, s.uncertainty_range.d * 1000)
            /\ (s.p10 = PercentOfBaseline(p10)) <=> (P.mean = RatInt(1000))
            /\ (s.p90 = PercentOfBaseline(p90)) <=> (P.mean = RatInt(1000))

\* PRCPTOT samples 1199 and 1401: mean 1300, p10 1219.2, p90 1380.8; the
\* summary bounds are 51.92 and 68.08, not 21.92 and 38.08
C14_Witness ==
    /\ HasSummary
    /\ ensemble_results["PRCPTOT"].mean = RatInt(1300)
    /\ ensemble_results["summary"].mean_change = RatInt(30)
    /\ ensemble_results["summary"].p10 = Rat(5192, 100)
    /\ ensemble_results["summary"].p90 = Rat(6808, 100)
    /\ ensemble_results["summary"].p10
          # PercentOfBaseline(ensemble_results["PRCPTOT"].percentiles[10])

\* C25 as claimed: whenever ensemble_analysis returns a top-level summary,
\* its bounds bracket the central estimate: summary.p10 <= summary.mean_change
\* <= summary.p90, also for a PRCPTOT field whose 10th percentile is above
\* the baseline 1000 or whose 90th percentile is below it.
C25_BoundsBracketMean ==
    HasSummary =>
        LET summary == ensemble_results["summary"]
        IN  /\ summary.p10.n * summary.mean_change.d
                  <= summary.mean_change.n * summary.p10.d
            /\ summary.mean_change.n * summary.p90.d
                  <= summary.p90.n * summary.mean_change.d

\* PRCPTOT has at least one valid sample and every valid sample is 0
PrcptotMeanZero ==
    /\ "PRCPTOT" \in DOMAIN rainfall_indices
    /\ ValidSamples("PRCPTOT") # <<>>
    /\ \A i \in 1..Len(ValidSamples("PRCPTOT")) : ValidSamples("PRCPTOT")[i] = 0

\* C26 as claimed: when PRCPTOT has at least one valid sample but its mean
\* is 0, ensemble_analysis still returns the per-index results and a
\* top-level summary with a confidence level in {60, 75, 90}; the division
\* by PRCPTOT.mean never makes the operation fail.
C26_ZeroMeanStillSummarised ==
    (PrcptotMeanZero /\ ensemble_outcome # "pending") =>
        /\ ensemble_outcome = "returned"
        /\ "PRCPTOT" \in DOMAIN ensemble_results
        /\ "summary" \in DOMAIN ensemble_results
        /\ ensemble_results["summary"].confidence_level \in {60, 75, 90}

-----------------------------------------------------------------------------
(* Any one public operation, called on the inputs of its own family; the
   index engine is followed by calculate_regional_statistics on the regional
   series *)

InitOperations ==
    \/ InitLoad
    \/ InitRegrid
    \/ InitSeasonal
    \/ InitIndices
    \/ InitEnsemble
    \/ InitRegional

NextOperations ==
    \/ load_netcdf_data
    \/ regrid_data
    \/ calculate_seasonal_totals
    \/ calculate_rainfall_indices
    \/ ensemble_analysis
    \/ calculate_regional_statistics

SpecOperations == InitOperations /\ [][NextOperations]_vars

\* the call failed with a message "<prefix>: <cause>" and left no result
FailedWith(outcome, result, prefix) ==
    outcome = "raised" =>
        /\ result = <<>>
        /\ Len(last_error) >= 2
        /\ last_error[1] = prefix

Outcomes == <<load_outcome, regrid_outcome, seasonal_outcome, indices_outcome,
              ensemble_outcome, regional_outcome>>

\* C18: every failure of load_netcdf_data, regrid_data,
\* calculate_seasonal_totals, calculate_rainfall_indices, ensemble_analysis
\* or calculate_regional_statistics reaches the caller as an error whose
\* message is 'Error <doing X>: <cause>' naming that operation; no cause
\* escapes unwrapped and the failing operation returns no partial result.
C18_FailuresAreWrapped ==
    /\ FailedWith(load_outcome, loaded_data, "Error loading NetCDF data")
    /\ FailedWith(regrid_outcome, regridded_data, "Error regridding data")
    /\ FailedWith(seasonal_outcome, seasonal_data, "Error calculating seasonal totals")
    /\ FailedWith(indices_outcome, rainfall_indices, "Error calculating rainfall indices")
    /\ FailedWith(ensemble_outcome, ensemble_results, "Error in ensemble analysis")
    /\ FailedWith(regional_outcome, regional_stats, "Error calculating regional statistics")
    /\ (last_error # NoError) <=> (\E i \in 1..Len(Outcomes) : Outcomes[i] = "raised")

\* regrid_data on a dataset with coordinates rlat/rlon: the cause raised in
\* _interpolate_to_grid arrives wrapped twice
C18_Witness ==
    /\ regrid_outcome = "raised"
    /\ regridded_data = <<>>
    /\ last_error = <<"Error regridding data", "Error interpolating data",
                      "Could not identify lat/lon coordinates">>

-----------------------------------------------------------------------------
(* The pages of app.py.  A stored value is modelled by what it was computed
   from: a dataset by the file it was read from, a stage output by the
   stored value the stage was called on.  Which stage raises is decided by
   the file: see the list of files below. *)

Has(key) == session_state[key] # Absent

Store(key, value) == [session_state EXCEPT ![key] = value]

\* files the user can hand to the two uploaders
ImdFiles   == {"imd.nc", "imd_text_time.nc", "unreadable.nc"}
Cmip6Files == {"cmip6.nc", "cmip6_dry.nc", "cmip6_no_latlon.nc", "unreadable.nc"}

\* the dataset load_netcdf_data or the demo generator returns
DatasetOf(file) == [kind |-> "dataset", file |-> file]

\* load_netcdf_data raises on a file xarray cannot open
LoadRaises(file) == file = "unreadable.nc"

\* regrid_data raises on a dataset without a latitude or longitude coordinate
AppRegridRaises(imd, cmip6) == "cmip6_no_latlon.nc" \in {imd.file, cmip6.file}

\* calculate_seasonal_totals raises on time values pd.to_datetime cannot parse
AppSeasonalRaises(regridded) ==
    "imd_text_time.nc" \in {regridded.imd.file, regridded.cmip6.file}

\* ensemble_analysis raises on a PRCPTOT field whose mean is 0
AppEnsembleRaises(indices) == indices.from.from.cmip6.file = "cmip6_dry.nc"

Regridded(imd, cmip6) == [kind |-> "regridded", imd |-> imd, cmip6 |-> cmip6]
ComputedFrom(kind, input) == [kind |-> kind, from |-> input]

\* the variables of the stage models, which the pages leave alone
pipeline_vars == <<load_vars, regrid_vars, seasonal_data, seasonal_outcome,
                   indices_outcome, rainfall_indices, ensemble_results,
                   ensemble_outcome, regional_stats, regional_outcome, last_error>>

\* lines 71-102: the button 'Generate Demo Data'
GenerateDemoData ==
    /\ session_state' = [session_state EXCEPT
                           !["imd_processed"] = DatasetOf("imd_demo"),
                           !["cmip6_processed"] = DatasetOf("cmip6_demo")]
    /\ page_output' = Shown("success", "Demo data generated successfully!", Absent)
    /\ UNCHANGED pipeline_vars

\* lines 117-132: a file in the IMD uploader
UploadImd(imd_file) ==
    /\ IF LoadRaises(imd_file)
       THEN /\ page_output' = Shown("error", "Error processing IMD data", Absent)
            /\ UNCHANGED session_state
       ELSE /\ session_state' = Store("imd_processed", DatasetOf(imd_file))
            /\ page_output' = Shown("success", "IMD data loaded successfully!", Absent)
    /\ UNCHANGED pipeline_vars

\* lines 142-157: a file in the CMIP6 uploader
UploadCmip6(cmip6_file) ==
    /\ IF LoadRaises(cmip6_file)
       THEN /\ page_output' = Shown("error", "Error processing CMIP6 data", Absent)
            /\ UNCHANGED session_state
       ELSE /\ session_state' = Store("cmip6_processed", DatasetOf(cmip6_file))
            /\ page_output' = Shown("success", "CMIP6 data loaded successfully!", Absent)
    /\ UNCHANGED pipeline_vars

\* lines 162-191: the button 'Start Preprocessing'
StartPreprocessing ==
    /\ IF ~(Has("imd_processed") /\ Has("cmip6_processed"))
       THEN /\ page_output' = Shown("warning",
                   "Please upload both IMD and CMIP6 data files first.", Absent)
            /\ UNCHANGED session_state
       ELSE LET imd       == session_state["imd_processed"]
                cmip6     == session_state["cmip6_processed"]
                regridded == Regridded(imd, cmip6)
            IN  IF AppRegridRaises(imd, cmip6)
                THEN /\ page_output' = Shown("error", "Error during preprocessing", Absent)
                     /\ UNCHANGED session_state
                ELSE IF AppSeasonalRaises(regridded)
                     THEN /\ session_state' = Store("regridded_data", regridded)
                          /\ page_output' =
                               Shown("error", "Error during preprocessing", Absent)
                     ELSE /\ session_state' =
                               [session_state EXCEPT
                                  !["regridded_data"] = regridded,
                                  !["seasonal_data"] = ComputedFrom("seasonal", regridded)]
                          /\ page_output' =
                               Shown("success", "Preprocessing completed successfully!",
                                     Absent)
    /\ UNCHANGED pipeline_vars

\* lines 196-198: the page returns at once without seasonal data
climate_analysis_page == Has("seasonal_data")

\* lines 217-254: the button 'Calculate Rainfall Indices'
CalculateRainfallIndices ==
    /\ climate_analysis_page
    /\ session_state' = Store("rainfall_indices",
                              ComputedFrom("indices", session_state["seasonal_data"]))
    /\ page_output' = Shown("success", "Rainfall indices calculated successfully!",
                            Absent)
    /\ UNCHANGED pipeline_vars

\* lines 259-299: the button 'Perform Ensemble Analysis'
PerformEnsembleAnalysis ==
    /\ climate_analysis_page
    /\ IF ~Has("rainfall_indices")
       THEN /\ page_output' = Shown("warning",
                   "Please calculate rainfall indices first.", Absent)
            /\ UNCHANGED session_state
       ELSE IF AppEnsembleRaises(session_state["rainfall_indices"])
            THEN /\ page_output' = Shown("error", "Error in ensemble analysis", Absent)
                 /\ UNCHANGED session_state
            ELSE /\ session_state' =
                      Store("ensemble_results",
                            ComputedFrom("ensemble", session_state["rainfall_indices"]))
                 /\ page_output' = Shown("success", "Ensemble analysis completed!",
                                         Absent)
    /\ UNCHANGED pipeline_vars

\* lines 304-306 and 376-378: both pages return at once without ensemble results
visualization_page == Has("ensemble_results")
executive_summary_page == Has("ensemble_results")

\* lines 324-371: the button 'Generate Visualizations'
GenerateVisualizations ==
    /\ visualization_page
    /\ session_state' = Store("generated_visualizations",
                              [kind |-> "visualizations"])
    /\ page_output' = Shown("success", "All visualizations generated successfully!",
                            Absent)
    /\ UNCHANGED pipeline_vars

\* lines 381-444: the button 'Generate Executive Summary'
GenerateExecutiveSummary ==
    /\ executive_summary_page
    /\ session_state' = Store("executive_summary",
                              ComputedFrom("summary", session_state["ensemble_results"]))
    /\ page_output' = Shown("success", "Executive summary generated successfully!",
                            Absent)
    /\ UNCHANGED pipeline_vars

\* an export page that opens without an executive summary
export_page_always == TRUE

\* lines 449-451: the page returns at once without an executive summary
export_page == Has("executive_summary")

\* lines 474-512: the button 'Generate Export Package'
GenerateExportPackage ==
    /\ export_page
    /\ page_output' =
         Shown("success", "Export package created successfully!",
               [kind |-> "package",
                ensemble_results  |-> session_state["ensemble_results"],
                executive_summary |-> session_state["executive_summary"],
                visualizations    |-> session_state["generated_visualizations"]])
    /\ UNCHANGED <<session_state, pipeline_vars>>

InitApp ==
    /\ file_path = <<>>
    /\ loaded_data = <<>>
    /\ load_outcome = "returned"
    /\ imd_data = <<>>
    /\ cmip6_data = <<>>
    /\ target_resolution = 1
    /\ regridded_data = <<>>
    /\ regrid_outcome = "returned"
    /\ seasonal_data = <<>>
    /\ seasonal_outcome = "returned"
    /\ indices_outcome = "returned"
    /\ rainfall_indices = <<>>
    /\ ensemble_results = <<>>
    /\ ensemble_outcome = "returned"
    /\ regional_stats = <<>>
    /\ regional_outcome = "returned"
    /\ last_error = NoError
    /\ session_state = NoSession
    /\ page_output = NothingShown

NextApp ==
    \/ GenerateDemoData
    \/ \E imd_file \in ImdFiles : UploadImd(imd_file)
    \/ \E cmip6_file \in Cmip6Files : UploadCmip6(cmip6_file)
    \/ StartPreprocessing
    \/ CalculateRainfallIndices
    \/ PerformEnsembleAnalysis
    \/ GenerateVisualizations
    \/ GenerateExecutiveSummary
    \/ GenerateExportPackage

SpecApp == InitApp /\ [][NextApp]_vars

-----------------------------------------------------------------------------
(* Claims about the session, checked under SpecApp *)

\* key is stored, or stored anew, by the step
Stored(key) == session_state'[key] # session_state[key]

\* the step builds an export package
Exported == page_output'.package # Absent /\ page_output' # page_output

\* C22: in every sequence of user actions, stage outputs are stored in
\* pipeline order only: seasonal_data only when imd_processed and
\* cmip6_processed are present, rainfall_indices only when seasonal_data is
\* present, ensemble_results only when rainfall_indices is present,
\* executive_summary only when ensemble_results is present, and an export
\* package is built only when executive_summary is present.
C22_StoredInPipelineOrder ==
    [][/\ Stored("seasonal_data") =>
            Has("imd_processed") /\ Has("cmip6_processed")
       /\ Stored("rainfall_indices") => Has("seasonal_data")
       /\ Stored("ensemble_results") => Has("rainfall_indices")
       /\ Stored("executive_summary") => Has("ensemble_results")
       /\ Exported => Has("executive_summary")]_vars

\* a session in which every stage has stored its output and an export
\* package has been built
C22_Witness ==
    /\ \A k \in SessionKeys : Has(k)
    /\ page_output.package # Absent
    /\ page_output.package.executive_summary = session_state["executive_summary"]

\* C28 as claimed: downstream results held in the session are never stale:
\* whenever ensemble_results is present it was computed from the
\* rainfall_indices currently held, which was computed from the
\* seasonal_data currently held, which was computed from the imd_processed
\* and cmip6_processed currently held.
C28_NeverStale ==
    Has("ensemble_results") =>
        /\ session_state["ensemble_results"].from = session_state["rainfall_indices"]
        /\ session_state["rainfall_indices"].from = session_state["seasonal_data"]
        /\ session_state["seasonal_data"].from.imd = session_state["imd_processed"]
        /\ session_state["seasonal_data"].from.cmip6 = session_state["cmip6_processed"]

\* C29 as claimed: 'Start Preprocessing' is all-or-nothing on the session:
\* when regrid_data succeeds and calculate_seasonal_totals then fails,
\* neither regridded_data nor seasonal_data is changed, so that the
\* regridded_data and the seasonal_data held in the session always derive
\* from the same pair of inputs.
C29_PreprocessingAllOrNothing ==
    (Has("regridded_data") \/ Has("seasonal_data")) =>
        /\ Has("regridded_data")
        /\ Has("seasonal_data")
        /\ session_state["seasonal_data"].from = session_state["regridded_data"]

====
